---------------------------- MODULE Spec2Model ----------------------------
(***************************************************************************)
(* A state-machine model of the Xinu OS compiler: the lexer (lexer.c), the *)
(* recursive-descent parser (parser.c), the symbol table (symbol_table.c), *)
(* the code generator (codegen.c) and the driver (compiler.c).             *)
(*                                                                         *)
(* Characters are their ASCII codes, strings are sequences of codes, and   *)
(* C pointers that may be NULL are records whose type field is "NULL".     *)
(***************************************************************************)
EXTENDS Integers, Sequences, FiniteSets, TLC

(***************************************************************************)
(* Characters and strings                                                  *)
(***************************************************************************)

\* The printable ASCII characters in code order, from code 32 (space) on.
Printable ==
    << " ", "!", "\"", "#", "$", "%", "&", "'", "(", ")", "*", "+", ",", "-", ".", "/",
       "0", "1", "2", "3", "4", "5", "6", "7", "8", "9", ":", ";", "<", "=", ">", "?",
       "@", "A", "B", "C", "D", "E", "F", "G", "H", "I", "J", "K", "L", "M", "N", "O",
       "P", "Q", "R", "S", "T", "U", "V", "W", "X", "Y", "Z", "[", "\\", "]", "^", "_",
       "BACKQUOTE", "a", "b", "c", "d", "e", "f", "g", "h", "i", "j", "k", "l", "m", "n", "o",
       "p", "q", "r", "s", "t", "u", "v", "w", "x", "y", "z", "{", "|", "}", "~" >>

\* The code of a printable character written as a one-character string.
Ord(c) == 31 + (CHOOSE i \in DOMAIN Printable : Printable[i] = c)

\* A C string literal, written as a sequence of one-character strings.
Str(s) == [i \in DOMAIN s |-> Ord(s[i])]

\* The characters the lexer names, by their ASCII codes.
Ch_sp == 32
Ch_bang == 33
Ch_dquote == 34
Ch_percent == 37
Ch_amp == 38
Ch_squote == 39
Ch_lparen == 40
Ch_rparen == 41
Ch_star == 42
Ch_plus == 43
Ch_comma == 44
Ch_minus == 45
Ch_dot == 46
Ch_slash == 47
Ch_zero == 48
Ch_one == 49
Ch_nine == 57
Ch_colon == 58
Ch_semi == 59
Ch_lt == 60
Ch_eq == 61
Ch_gt == 62
Ch_question == 63
Ch_lbracket == 91
Ch_backslash == 92
Ch_rbracket == 93
Ch_caret == 94
Ch_underscore == 95
Ch_lbrace == 123
Ch_pipe == 124
Ch_rbrace == 125
Ch_tilde == 126
Ch_a == 97
Ch_b == 98
Ch_e == 101
Ch_f == 102
Ch_l == 108
Ch_n == 110
Ch_r == 114
Ch_t == 116
Ch_u == 117
Ch_v == 118
Ch_x == 120
Ch_z == 122
Ch_A == 65
Ch_B == 66
Ch_E == 69
Ch_F == 70
Ch_L == 76
Ch_U == 85
Ch_X == 88
Ch_Z == 90
Ch_nul == 0
Ch_bel == 7
Ch_bs == 8
Ch_tab == 9
Ch_nl == 10
Ch_vt == 11
Ch_ff == 12
Ch_cr == 13

(***************************************************************************)
(* Lexer (lexer.c)                                                         *)
(***************************************************************************)
MAX_TOKEN_LEN == 256

keywords ==
    << [keyword |-> Str(<<"v","o","i","d">>), type |-> "TOKEN_VOID"],
       [keyword |-> Str(<<"i","n","t">>), type |-> "TOKEN_INT"],
       [keyword |-> Str(<<"c","h","a","r">>), type |-> "TOKEN_CHAR_TYPE"],
       [keyword |-> Str(<<"f","l","o","a","t">>), type |-> "TOKEN_FLOAT_TYPE"],
       [keyword |-> Str(<<"d","o","u","b","l","e">>), type |-> "TOKEN_DOUBLE"],
       [keyword |-> Str(<<"l","o","n","g">>), type |-> "TOKEN_LONG"],
       [keyword |-> Str(<<"s","h","o","r","t">>), type |-> "TOKEN_SHORT"],
       [keyword |-> Str(<<"u","n","s","i","g","n","e","d">>), type |-> "TOKEN_UNSIGNED"],
       [keyword |-> Str(<<"s","i","g","n","e","d">>), type |-> "TOKEN_SIGNED"],
       [keyword |-> Str(<<"c","o","n","s","t">>), type |-> "TOKEN_CONST"],
       [keyword |-> Str(<<"v","o","l","a","t","i","l","e">>), type |-> "TOKEN_VOLATILE"],
       [keyword |-> Str(<<"s","t","a","t","i","c">>), type |-> "TOKEN_STATIC"],
       [keyword |-> Str(<<"e","x","t","e","r","n">>), type |-> "TOKEN_EXTERN"],
       [keyword |-> Str(<<"s","t","r","u","c","t">>), type |-> "TOKEN_STRUCT"],
       [keyword |-> Str(<<"u","n","i","o","n">>), type |-> "TOKEN_UNION"],
       [keyword |-> Str(<<"e","n","u","m">>), type |-> "TOKEN_ENUM"],
       [keyword |-> Str(<<"t","y","p","e","d","e","f">>), type |-> "TOKEN_TYPEDEF"],
       [keyword |-> Str(<<"s","i","z","e","o","f">>), type |-> "TOKEN_SIZEOF"],
       [keyword |-> Str(<<"i","f">>), type |-> "TOKEN_IF"],
       [keyword |-> Str(<<"e","l","s","e">>), type |-> "TOKEN_ELSE"],
       [keyword |-> Str(<<"w","h","i","l","e">>), type |-> "TOKEN_WHILE"],
       [keyword |-> Str(<<"d","o">>), type |-> "TOKEN_DO"],
       [keyword |-> Str(<<"f","o","r">>), type |-> "TOKEN_FOR"],
       [keyword |-> Str(<<"s","w","i","t","c","h">>), type |-> "TOKEN_SWITCH"],
       [keyword |-> Str(<<"c","a","s","e">>), type |-> "TOKEN_CASE"],
       [keyword |-> Str(<<"d","e","f","a","u","l","t">>), type |-> "TOKEN_DEFAULT"],
       [keyword |-> Str(<<"b","r","e","a","k">>), type |-> "TOKEN_BREAK"],
       [keyword |-> Str(<<"c","o","n","t","i","n","u","e">>), type |-> "TOKEN_CONTINUE"],
       [keyword |-> Str(<<"r","e","t","u","r","n">>), type |-> "TOKEN_RETURN"],
       [keyword |-> Str(<<"g","o","t","o">>), type |-> "TOKEN_GOTO"],
       [keyword |-> Str(<<"p","r","o","c","e","s","s">>), type |-> "TOKEN_PROCESS"],
       [keyword |-> Str(<<"s","y","s","c","a","l","l">>), type |-> "TOKEN_SYSCALL"],
       [keyword |-> Str(<<"i","n","t","e","r","r","u","p","t">>), type |-> "TOKEN_INTERRUPT"],
       [keyword |-> Str(<<"s","e","m","a","p","h","o","r","e">>), type |-> "TOKEN_SEMAPHORE"],
       [keyword |-> Str(<<"s","i","g","n","a","l">>), type |-> "TOKEN_SIGNAL"],
       [keyword |-> Str(<<"w","a","i","t">>), type |-> "TOKEN_WAIT"],
       [keyword |-> Str(<<"c","r","e","a","t","e">>), type |-> "TOKEN_CREATE"],
       [keyword |-> Str(<<"r","e","s","u","m","e">>), type |-> "TOKEN_RESUME"],
       [keyword |-> Str(<<"s","u","s","p","e","n","d">>), type |-> "TOKEN_SUSPEND"],
       [keyword |-> Str(<<"k","i","l","l">>), type |-> "TOKEN_KILL"],
       [keyword |-> Str(<<"s","l","e","e","p">>), type |-> "TOKEN_SLEEP"],
       [keyword |-> Str(<<"y","i","e","l","d">>), type |-> "TOKEN_YIELD"],
       [keyword |-> Str(<<"g","e","t","p","i","d">>), type |-> "TOKEN_GETPID"],
       [keyword |-> Str(<<"g","e","t","p","r","i","o">>), type |-> "TOKEN_GETPRIO"],
       [keyword |-> Str(<<"c","h","p","r","i","o">>), type |-> "TOKEN_CHPRIO"],
       [keyword |-> Str(<<"t","r","u","e">>), type |-> "TOKEN_TRUE"],
       [keyword |-> Str(<<"f","a","l","s","e">>), type |-> "TOKEN_FALSE"],
       [keyword |-> Str(<<"n","u","l","l">>), type |-> "TOKEN_NULL_LITERAL"],
       [keyword |-> Str(<<"N","U","L","L">>), type |-> "TOKEN_NULL_LITERAL"] >>

isdigit(c) == c >= Ch_zero /\ c <= Ch_nine
isalpha(c) == (c >= Ch_a /\ c <= Ch_z) \/ (c >= Ch_A /\ c <= Ch_Z)
isalnum(c) == isalpha(c) \/ isdigit(c)
isxdigit(c) == isdigit(c) \/ (c >= Ch_a /\ c <= Ch_f) \/ (c >= Ch_A /\ c <= Ch_F)

\* strncpy(dst, s, MAX_TOKEN_LEN - 1) followed by the terminating NUL.
Truncate(s) == IF Len(s) > MAX_TOKEN_LEN - 1 THEN SubSeq(s, 1, MAX_TOKEN_LEN - 1) ELSE s

lexer_init_ex(source) ==
    [source |-> source, pos |-> 0, line |-> 1, column |-> 1,
     length |-> Len(source), has_error |-> FALSE, error_msg |-> <<>>]

lexer_current(lexer) ==
    IF lexer.pos >= lexer.length THEN Ch_nul ELSE lexer.source[lexer.pos + 1]

lexer_peek(lexer) ==
    IF lexer.pos + 1 >= lexer.length THEN Ch_nul ELSE lexer.source[lexer.pos + 2]

\* lexer_advance with the line count left alone at a newline.
lexer_advance_same_line(lexer) ==
    IF lexer.pos < lexer.length
    THEN IF lexer.source[lexer.pos + 1] = Ch_nl
         THEN [lexer EXCEPT !.column = 1, !.pos = @ + 1]
         ELSE [lexer EXCEPT !.column = @ + 1, !.pos = @ + 1]
    ELSE lexer

lexer_advance(lexer) ==
    IF lexer.pos < lexer.length
    THEN IF lexer.source[lexer.pos + 1] = Ch_nl
         THEN [lexer EXCEPT !.line = @ + 1, !.column = 1, !.pos = @ + 1]
         ELSE [lexer EXCEPT !.column = @ + 1, !.pos = @ + 1]
    ELSE lexer

\* snprintf(error_msg, "%s:%d:%d: error: %s", filename, line, column, msg):
\* the position followed by the message text.
lexer_error(lexer, msg) ==
    [lexer EXCEPT !.has_error = TRUE,
                  !.error_msg = <<lexer.line, lexer.column>> \o msg]

RECURSIVE skip_line_comment(_)
skip_line_comment(lexer) ==
    IF lexer.pos < lexer.length /\ lexer_current(lexer) # Ch_nl
    THEN skip_line_comment(lexer_advance(lexer))
    ELSE lexer

RECURSIVE block_comment_loop(_)
block_comment_loop(lexer) ==
    IF lexer.pos < lexer.length
    THEN IF lexer_current(lexer) = Ch_star /\ lexer_peek(lexer) = Ch_slash
         THEN lexer_advance(lexer_advance(lexer))
         ELSE block_comment_loop(lexer_advance(lexer))
    ELSE lexer_error(lexer, Str(<<"U","n","t","e","r","m","i","n","a","t","e","d"," ","b","l","o","c","k"," ","c","o","m","m","e","n","t">>))

skip_block_comment(lexer) == block_comment_loop(lexer_advance(lexer_advance(lexer)))

RECURSIVE skip_whitespace_and_comments(_)
skip_whitespace_and_comments(lexer) ==
    IF lexer.pos < lexer.length
    THEN LET c == lexer_current(lexer)
         IN  IF c \in {Ch_sp, Ch_tab, Ch_cr, Ch_nl}
             THEN skip_whitespace_and_comments(lexer_advance(lexer))
             ELSE IF c = Ch_slash /\ lexer_peek(lexer) = Ch_slash
             THEN skip_whitespace_and_comments(skip_line_comment(lexer))
             ELSE IF c = Ch_slash /\ lexer_peek(lexer) = Ch_star
             THEN skip_whitespace_and_comments(skip_block_comment(lexer))
             ELSE lexer
    ELSE lexer

\* An int64_t is carried as its four 16-bit limbs in two's complement, the
\* least significant first: the integers of the checker are narrower than
\* 64 bits.  int64_t(n) is the conversion to int64_t of an int n.
int64_t(n) ==
    <<n % 65536, (n \div 65536) % 65536,
      IF n < 0 THEN 65535 ELSE 0, IF n < 0 THEN 65535 ELSE 0>>

\* The casts (int32_t) and (int) of an int64_t: its low 32 bits, read in
\* two's complement.
int32_t(v) ==
    IF v[2] >= 32768 THEN (v[2] - 65536) * 65536 + v[1] ELSE v[2] * 65536 + v[1]

\* A token_t: its kind, text, the int_val of its literal and its position.
Token(type, value, int_val, line, column) ==
    [type |-> type, value |-> value, int_val |-> int_val,
     line |-> line, column |-> column]

make_token(lexer, type, value) ==
    Token(type, Truncate(value), int64_t(0), lexer.line, lexer.column)

\* Returns the error token and the lexer with its error state set.
make_error_token(lexer, message) ==
    [token |-> Token("TOKEN_ERROR", Truncate(message), int64_t(0), lexer.line, lexer.column),
     lexer |-> [lexer EXCEPT !.has_error = TRUE, !.error_msg = message]]

RECURSIVE keyword_scan(_, _)
keyword_scan(identifier, i) ==
    LET scan(table) ==
            IF i > Len(table) THEN "TOKEN_IDENTIFIER"
            ELSE IF table[i].keyword = identifier THEN table[i].type
            ELSE keyword_scan(identifier, i + 1)
    IN  scan(keywords)

lookup_keyword(identifier) == keyword_scan(identifier, 1)

RECURSIVE identifier_loop(_, _)
identifier_loop(lexer, value) ==
    IF lexer.pos < lexer.length
       /\ (isalnum(lexer_current(lexer)) \/ lexer_current(lexer) = Ch_underscore)
    THEN identifier_loop(lexer_advance(lexer),
                         IF Len(value) < MAX_TOKEN_LEN - 1
                         THEN Append(value, lexer_current(lexer)) ELSE value)
    ELSE [lexer |-> lexer, value |-> value]

read_identifier(lexer) ==
    LET token_of(r) ==
            [token |-> Token(lookup_keyword(r.value), r.value, int64_t(0), lexer.line, lexer.column),
             lexer |-> r.lexer]
    IN  token_of(identifier_loop(lexer, <<>>))

hex_digit_value(c) ==
    IF c >= Ch_zero /\ c <= Ch_nine THEN c - Ch_zero
    ELSE IF c >= Ch_a /\ c <= Ch_f THEN c - Ch_a + 10
    ELSE IF c >= Ch_A /\ c <= Ch_F THEN c - Ch_A + 10
    ELSE -1

\* strtoll(s, NULL, base) on the digit strings read_number builds: an optional
\* 0x prefix in base 16, then the longest run of digits of the base.  The
\* value is acc * base + digit, limb by limb with the carry t of the limb
\* below; a value past LLONG_MAX is LLONG_MAX, and stays so.
RECURSIVE strtoll_loop(_, _, _, _)
strtoll_loop(s, i, base, acc) ==
    LET LLONG_MAX == <<65535, 65535, 65535, 32767>>
        limb4(l1, l2, l3, t) == IF t > 32767 THEN LLONG_MAX ELSE <<l1, l2, l3, t>>
        limb3(l1, l2, t) == limb4(l1, l2, t % 65536, acc[4] * base + t \div 65536)
        limb2(l1, t) == limb3(l1, t % 65536, acc[3] * base + t \div 65536)
        limb1(t) == limb2(t % 65536, acc[2] * base + t \div 65536)
    IN  IF i <= Len(s) /\ hex_digit_value(s[i]) >= 0 /\ hex_digit_value(s[i]) < base
        THEN strtoll_loop(s, i + 1, base, limb1(acc[1] * base + hex_digit_value(s[i])))
        ELSE acc

strtoll(s, base) ==
    IF base = 16 /\ Len(s) >= 3 /\ s[1] = Ch_zero /\ s[2] \in {Ch_x, Ch_X}
       /\ isxdigit(s[3])
    THEN strtoll_loop(s, 3, base, int64_t(0))
    ELSE strtoll_loop(s, 1, base, int64_t(0))

\* The digit loop of read_number.
RECURSIVE number_loop(_, _, _, _, _)
number_loop(lexer, value, is_float, is_hex, is_binary) ==
    LET c == lexer_current(lexer)
        take == Append(value, c)
        stop == [lexer |-> lexer, value |-> value, is_float |-> is_float]
    IN  IF ~(lexer.pos < lexer.length /\ Len(value) < MAX_TOKEN_LEN - 1) THEN stop
        ELSE IF is_hex
        THEN IF isxdigit(c)
             THEN number_loop(lexer_advance(lexer), take, is_float, is_hex, is_binary)
             ELSE stop
        ELSE IF is_binary
        THEN IF c = Ch_zero \/ c = Ch_one
             THEN number_loop(lexer_advance(lexer), take, is_float, is_hex, is_binary)
             ELSE stop
        ELSE IF isdigit(c)
        THEN number_loop(lexer_advance(lexer), take, is_float, is_hex, is_binary)
        ELSE IF c = Ch_dot /\ ~is_float /\ isdigit(lexer_peek(lexer))
        THEN number_loop(lexer_advance(lexer), take, TRUE, is_hex, is_binary)
        ELSE IF (c = Ch_e \/ c = Ch_E) /\ ~is_hex
        THEN LET l1 == lexer_advance(lexer)
                 s == lexer_current(l1)
             IN  IF s = Ch_plus \/ s = Ch_minus
                 THEN number_loop(lexer_advance(l1), Append(take, s), TRUE, is_hex, is_binary)
                 ELSE number_loop(l1, take, TRUE, is_hex, is_binary)
        ELSE stop

RECURSIVE number_suffix(_)
number_suffix(lexer) ==
    IF lexer_current(lexer) \in {Ch_u, Ch_U, Ch_l, Ch_L, Ch_f, Ch_F}
    THEN number_suffix(lexer_advance(lexer))
    ELSE lexer

\* The literal of a float token is a double, which the model does not carry:
\* its int_val is left 0.
read_number(lexer) ==
    LET lead == lexer_current(lexer) = Ch_zero
        \* the token, from what the digit loop r has read
        token_of(r, is_hex, is_binary, is_octal) ==
            [token |-> Token(IF r.is_float THEN "TOKEN_FLOAT" ELSE "TOKEN_NUMBER",
                             r.value,
                             IF r.is_float THEN int64_t(0)
                             ELSE IF is_hex THEN strtoll(r.value, 16)
                             ELSE IF is_binary THEN strtoll(SubSeq(r.value, 3, Len(r.value)), 2)
                             ELSE IF is_octal THEN strtoll(r.value, 8)
                             ELSE strtoll(r.value, 10),
                             lexer.line, lexer.column),
             lexer |-> number_suffix(r.lexer)]
        \* the digits, after the prefix: l1 is the lexer after a leading 0 and
        \* c1 the character there
        digits(l1, c1, is_hex, is_binary) ==
            token_of(number_loop(IF is_hex \/ is_binary THEN lexer_advance(l1) ELSE l1,
                                 IF ~lead THEN <<>>
                                 ELSE IF is_hex \/ is_binary THEN <<Ch_zero, c1>>
                                 ELSE <<Ch_zero>>,
                                 FALSE, is_hex, is_binary),
                     is_hex, is_binary,
                     lead /\ ~is_hex /\ ~is_binary /\ isdigit(c1))
        prefix(l1, c1) ==
            digits(l1, c1,
                   lead /\ (c1 = Ch_x \/ c1 = Ch_X),
                   lead /\ ~(c1 = Ch_x \/ c1 = Ch_X) /\ (c1 = Ch_b \/ c1 = Ch_B))
        start(l1) == prefix(l1, lexer_current(l1))
    IN  start(IF lead THEN lexer_advance(lexer) ELSE lexer)

RECURSIVE hex_escape_loop(_, _, _)
hex_escape_loop(lexer, i, value) ==
    IF i < 2 /\ isxdigit(lexer_current(lexer))
    THEN hex_escape_loop(lexer_advance(lexer), i + 1,
                         value * 16 + hex_digit_value(lexer_current(lexer)))
    ELSE [lexer |-> lexer, c |-> value]

read_escape_char(lexer) ==
    LET l1 == lexer_advance(lexer)
        c == lexer_current(l1)
        l2 == lexer_advance(l1)
        ret(v) == [lexer |-> l2, c |-> v]
    IN  CASE c = Ch_n -> ret(Ch_nl)
          [] c = Ch_t -> ret(Ch_tab)
          [] c = Ch_r -> ret(Ch_cr)
          [] c = Ch_zero -> ret(Ch_nul)
          [] c = Ch_backslash -> ret(Ch_backslash)
          [] c = Ch_squote -> ret(Ch_squote)
          [] c = Ch_dquote -> ret(Ch_dquote)
          [] c = Ch_a -> ret(Ch_bel)
          [] c = Ch_b -> ret(Ch_bs)
          [] c = Ch_f -> ret(Ch_ff)
          [] c = Ch_v -> ret(Ch_vt)
          [] c = Ch_x -> hex_escape_loop(l2, 0, 0)
          [] OTHER -> ret(c)

\* token.value is a C string: it ends at the first NUL stored in it.
CString(value) ==
    IF \E i \in DOMAIN value : value[i] = Ch_nul
    THEN SubSeq(value, 1, (CHOOSE i \in DOMAIN value :
                              value[i] = Ch_nul /\ \A j \in 1..(i - 1) : value[j] # Ch_nul) - 1)
    ELSE value

\* The character loop of read_string, entered after the opening quote.
RECURSIVE string_loop(_, _)
string_loop(lexer, value) ==
    LET c == lexer_current(lexer)
        done(l) == [token |-> Token("TOKEN_STRING", CString(value), int64_t(0), 0, 0), lexer |-> l]
    IN  IF ~(lexer.pos < lexer.length /\ Len(value) < MAX_TOKEN_LEN - 1) THEN done(lexer)
        ELSE IF c = Ch_dquote THEN done(lexer_advance(lexer))
        ELSE IF c = Ch_backslash
        THEN LET e == read_escape_char(lexer) IN string_loop(e.lexer, Append(value, e.c))
        ELSE IF c = Ch_nl
        THEN make_error_token(lexer, Str(<<"U","n","t","e","r","m","i","n","a","t","e","d"," ","s","t","r","i","n","g"," ","l","i","t","e","r","a","l">>))
        ELSE string_loop(lexer_advance(lexer), Append(value, c))

read_string(lexer) ==
    LET token_of(r) ==
            IF r.token.type = "TOKEN_ERROR" THEN r
            ELSE [r EXCEPT !.token.line = lexer.line, !.token.column = lexer.column]
    IN  token_of(string_loop(lexer_advance(lexer), <<>>))

\* read_char giving up before it has passed the opening quote.
read_char_stuck(lexer) ==
    make_error_token(lexer, Str(<<"U","n","t","e","r","m","i","n","a","t","e","d"," ","c","h","a","r","a","c","t","e","r"," ","l","i","t","e","r","a","l">>))

read_char(lexer) ==
    LET token_of(e) ==
            IF lexer_current(e.lexer) # Ch_squote
            THEN make_error_token(e.lexer, Str(<<"U","n","t","e","r","m","i","n","a","t","e","d"," ","c","h","a","r","a","c","t","e","r"," ","l","i","t","e","r","a","l">>))
            ELSE [token |-> Token("TOKEN_CHAR", CString(<<e.c>>), int64_t(0), lexer.line, lexer.column),
                  lexer |-> lexer_advance(e.lexer)]
        \* l1 is the lexer after the opening quote
        char_of(l1) ==
            token_of(IF lexer_current(l1) = Ch_backslash
                     THEN read_escape_char(l1)
                     ELSE [lexer |-> lexer_advance(l1), c |-> lexer_current(l1)])
    IN  char_of(lexer_advance(lexer))

\* The switch of lexer_next_token_ex on the character c, which has been read
\* and passed: lexer is the lexer after that lexer_advance.
operator_token(lexer, c) ==
    LET n == lexer_current(lexer)
        l1 == lexer_advance(lexer)
        n2 == lexer_current(l1)
        l2 == lexer_advance(l1)
        tok(l, type, value) == [token |-> make_token(l, type, value), lexer |-> l]
    IN  CASE c = Ch_plus ->
                IF n = Ch_plus THEN tok(l1, "TOKEN_INCREMENT", Str(<<"+","+">>))
                ELSE IF n = Ch_eq THEN tok(l1, "TOKEN_PLUS_ASSIGN", Str(<<"+","=">>))
                ELSE tok(lexer, "TOKEN_PLUS", Str(<<"+">>))
          [] c = Ch_minus ->
                IF n = Ch_minus THEN tok(l1, "TOKEN_DECREMENT", Str(<<"-","-">>))
                ELSE IF n = Ch_eq THEN tok(l1, "TOKEN_MINUS_ASSIGN", Str(<<"-","=">>))
                ELSE IF n = Ch_gt THEN tok(l1, "TOKEN_ARROW", Str(<<"-",">">>))
                ELSE tok(lexer, "TOKEN_MINUS", Str(<<"-">>))
          [] c = Ch_star ->
                IF n = Ch_eq THEN tok(l1, "TOKEN_MUL_ASSIGN", Str(<<"*","=">>))
                ELSE tok(lexer, "TOKEN_MULTIPLY", Str(<<"*">>))
          [] c = Ch_slash ->
                IF n = Ch_eq THEN tok(l1, "TOKEN_DIV_ASSIGN", Str(<<"/","=">>))
                ELSE tok(lexer, "TOKEN_DIVIDE", Str(<<"/">>))
          [] c = Ch_percent ->
                IF n = Ch_eq THEN tok(l1, "TOKEN_MOD_ASSIGN", Str(<<"%","=">>))
                ELSE tok(lexer, "TOKEN_MODULO", Str(<<"%">>))
          [] c = Ch_amp ->
                IF n = Ch_amp THEN tok(l1, "TOKEN_AND", Str(<<"&","&">>))
                ELSE IF n = Ch_eq THEN tok(l1, "TOKEN_AND_ASSIGN", Str(<<"&","=">>))
                ELSE tok(lexer, "TOKEN_BIT_AND", Str(<<"&">>))
          [] c = Ch_pipe ->
                IF n = Ch_pipe THEN tok(l1, "TOKEN_OR", Str(<<"|","|">>))
                ELSE IF n = Ch_eq THEN tok(l1, "TOKEN_OR_ASSIGN", Str(<<"|","=">>))
                ELSE tok(lexer, "TOKEN_BIT_OR", Str(<<"|">>))
          [] c = Ch_caret ->
                IF n = Ch_eq THEN tok(l1, "TOKEN_XOR_ASSIGN", Str(<<"^","=">>))
                ELSE tok(lexer, "TOKEN_BIT_XOR", Str(<<"^">>))
          [] c = Ch_tilde -> tok(lexer, "TOKEN_BIT_NOT", Str(<<"~">>))
          [] c = Ch_bang ->
                IF n = Ch_eq THEN tok(l1, "TOKEN_NE", Str(<<"!","=">>))
                ELSE tok(lexer, "TOKEN_NOT", Str(<<"!">>))
          [] c = Ch_eq ->
                IF n = Ch_eq THEN tok(l1, "TOKEN_EQ", Str(<<"=","=">>))
                ELSE tok(lexer, "TOKEN_ASSIGN", Str(<<"=">>))
          [] c = Ch_lt ->
                IF n = Ch_eq THEN tok(l1, "TOKEN_LE", Str(<<"<","=">>))
                ELSE IF n = Ch_lt
                THEN IF n2 = Ch_eq THEN tok(l2, "TOKEN_LSHIFT_ASSIGN", Str(<<"<","<","=">>))
                     ELSE tok(l1, "TOKEN_LSHIFT", Str(<<"<","<">>))
                ELSE tok(lexer, "TOKEN_LT", Str(<<"<">>))
          [] c = Ch_gt ->
                IF n = Ch_eq THEN tok(l1, "TOKEN_GE", Str(<<">","=">>))
                ELSE IF n = Ch_gt
                THEN IF n2 = Ch_eq THEN tok(l2, "TOKEN_RSHIFT_ASSIGN", Str(<<">",">","=">>))
                     ELSE tok(l1, "TOKEN_RSHIFT", Str(<<">",">">>))
                ELSE tok(lexer, "TOKEN_GT", Str(<<">">>))
          [] c = Ch_semi -> tok(lexer, "TOKEN_SEMICOLON", Str(<<";">>))
          [] c = Ch_colon -> tok(lexer, "TOKEN_COLON", Str(<<":">>))
          [] c = Ch_comma -> tok(lexer, "TOKEN_COMMA", Str(<<",">>))
          [] c = Ch_dot ->
                IF isdigit(n)
                THEN read_number([lexer EXCEPT !.pos = @ - 1, !.column = @ - 1])
                ELSE tok(lexer, "TOKEN_DOT", Str(<<".">>))
          [] c = Ch_lparen -> tok(lexer, "TOKEN_LPAREN", Str(<<"(">>))
          [] c = Ch_rparen -> tok(lexer, "TOKEN_RPAREN", Str(<<")">>))
          [] c = Ch_lbrace -> tok(lexer, "TOKEN_LBRACE", Str(<<"{">>))
          [] c = Ch_rbrace -> tok(lexer, "TOKEN_RBRACE", Str(<<"}">>))
          [] c = Ch_lbracket -> tok(lexer, "TOKEN_LBRACKET", Str(<<"[">>))
          [] c = Ch_rbracket -> tok(lexer, "TOKEN_RBRACKET", Str(<<"]">>))
          [] c = Ch_question -> tok(lexer, "TOKEN_QUESTION", Str(<<"?">>))
          [] OTHER ->
                \* snprintf(msg, "Unexpected character: '%c'", c)
                make_error_token(lexer, Str(<<"U","n","e","x","p","e","c","t","e","d"," ","c","h","a","r","a","c","t","e","r",":"," ","'">>) \o <<c, Ch_squote>>)

\* The file-scope statics of lexer.c that the token functions share.
Statics(has_peek_, peek_buffer_, has_unget_, unget_buffer_) ==
    [has_peek |-> has_peek_, peek_buffer |-> peek_buffer_,
     has_unget |-> has_unget_, unget_buffer |-> unget_buffer_]

\* The zero-filled token a static token_t holds before it is first written.
ZeroToken == Token("TOKEN_EOF", <<>>, int64_t(0), 0, 0)

\* lexer_next_token_ex: the token returned, the lexer and the statics afterwards.
lexer_next_token_ex(lexer, st) ==
    LET \* l1 is the lexer after white space and comments, c the character there
        scan(l1, c) ==
            IF l1.pos >= l1.length
            THEN [token |-> make_token(l1, "TOKEN_EOF", <<>>), lexer |-> l1]
            ELSE IF isalpha(c) \/ c = Ch_underscore THEN read_identifier(l1)
            ELSE IF isdigit(c) THEN read_number(l1)
            ELSE IF c = Ch_dquote THEN read_string(l1)
            ELSE IF c = Ch_squote THEN read_char(l1)
            ELSE operator_token(lexer_advance(l1), c)
        read(l1) == scan(l1, lexer_current(l1))
        result(r) == [token |-> r.token, lexer |-> r.lexer, statics |-> st]
    IN  IF st.has_unget
        THEN [token |-> st.unget_buffer, lexer |-> lexer,
              statics |-> [st EXCEPT !.has_unget = FALSE]]
        ELSE result(read(skip_whitespace_and_comments(lexer)))

\* lexer_peek_token_ex.
lexer_peek_token_ex(lexer, st) ==
    LET fill(r) ==
            [token |-> r.token, lexer |-> r.lexer,
             statics |-> [r.statics EXCEPT !.peek_buffer = r.token, !.has_peek = TRUE]]
    IN  IF ~st.has_peek
        THEN fill(lexer_next_token_ex(lexer, st))
        ELSE [token |-> st.peek_buffer, lexer |-> lexer, statics |-> st]

\* lexer_unget_token.
lexer_unget_token(st, token) == [st EXCEPT !.unget_buffer = token, !.has_unget = TRUE]

lexer_has_error(lexer) == lexer.has_error

\* The tokens a lexer freshly initialized on source returns, to the first EOF,
\* when nothing is pushed back.
RECURSIVE StreamFrom(_)
StreamFrom(lx) ==
    LET rest(r) ==
            IF r.token.type = "TOKEN_EOF" THEN <<r.token>>
            ELSE <<r.token>> \o StreamFrom(r.lexer)
    IN  rest(lexer_next_token_ex(lx, Statics(FALSE, ZeroToken, FALSE, ZeroToken)))
TokenStream(source) == StreamFrom(lexer_init_ex(source))

(***************************************************************************)
(* Types and syntax trees (parser.h, parser.c)                             *)
(***************************************************************************)
\* The null pointer.
NULL == [type |-> "NULL"]

MAX_ARRAY_DIMS == 8

\* type_create: a zero-filled type descriptor of the given base type.  addr
\* is the address getmem returned for it.
type_create(addr, base) ==
    [addr |-> addr, base_type |-> base, qualifiers |-> {}, pointer_depth |-> 0,
     array_sizes |-> <<>>, pointed_type |-> NULL, return_type |-> NULL]

RECURSIVE array_size_loop(_, _, _)
array_size_loop(type, i, base_size) ==
    IF i > Len(type.array_sizes) THEN base_size
    ELSE array_size_loop(type, i + 1, base_size * type.array_sizes[i])

type_size(type) ==
    IF type = NULL THEN 0
    ELSE array_size_loop(type, 1,
            CASE type.base_type = "TYPE_VOID" -> 0
              [] type.base_type = "TYPE_CHAR" -> 1
              [] type.base_type = "TYPE_SHORT" -> 2
              [] type.base_type = "TYPE_INT" -> 4
              [] type.base_type = "TYPE_LONG" -> 8
              [] type.base_type = "TYPE_FLOAT" -> 4
              [] type.base_type = "TYPE_DOUBLE" -> 8
              [] type.base_type = "TYPE_POINTER" -> 4
              [] type.base_type = "TYPE_PID" -> 4
              [] type.base_type = "TYPE_SEMAPHORE" -> 4
              [] OTHER -> 4)

\* ast_create_node: a zero-filled node of the given kind.  value is the
\* int_val member of the node's value union.
ast_create_node(type) ==
    [type |-> type, data_type |-> NULL, value |-> int64_t(0), name |-> <<>>, op |-> <<>>,
     left |-> NULL, right |-> NULL, extra |-> NULL, children |-> <<>>]

ast_add_child(parent, child) ==
    IF parent = NULL \/ child = NULL THEN parent
    ELSE [parent EXCEPT !.children = Append(@, child)]

\* type_create_pointer, type_copy and type_create_array; addr is the address
\* getmem returned for the new descriptor.  array_dims is the length of
\* array_sizes.
type_create_pointer(addr, pointed) ==
    [type_create(addr, "TYPE_POINTER") EXCEPT !.pointed_type = pointed, !.pointer_depth = 1]

type_copy(addr, type) == IF type = NULL THEN NULL ELSE [type EXCEPT !.addr = addr]

type_create_array(addr, element, size) ==
    LET sized(type) ==
            IF type # NULL /\ Len(type.array_sizes) < MAX_ARRAY_DIMS
            THEN [type EXCEPT !.array_sizes = Append(@, size)]
            ELSE type
    IN  sized(type_copy(addr, element))

\* type_free and ast_free: the addresses of the type descriptors given to
\* freemem, in the order of the calls.  param_types is NULL in every
\* descriptor the parser makes.
RECURSIVE type_free(_)
type_free(type) ==
    IF type = NULL THEN <<>>
    ELSE type_free(type.pointed_type) \o type_free(type.return_type) \o <<type.addr>>

RECURSIVE ast_free(_)

\* for (i = 0; i < node->child_count; i++) ast_free(node->children[i])
RECURSIVE free_loop(_, _)
free_loop(children, i) ==
    IF i > Len(children) THEN <<>>
    ELSE ast_free(children[i]) \o free_loop(children, i + 1)

ast_free(node) ==
    IF node = NULL THEN <<>>
    ELSE ast_free(node.left) \o ast_free(node.right) \o ast_free(node.extra)
         \o free_loop(node.children, 1) \o type_free(node.data_type)

(***************************************************************************)
(* Parser (parser.c)                                                       *)
(*                                                                         *)
(* The parser reads its lexer through advance alone and pushes nothing     *)
(* back, so what the calls of lexer_next_token_ex in advance return is     *)
(* TokensFrom the lexer given to parser_init, followed by EOF again:       *)
(* tokens holds that, fetched counts the calls made so far, and lexer is   *)
(* the lexer after the last of them.  allocated counts the type            *)
(* descriptors handed out by getmem, whose addresses are 1, 2, ...  A      *)
(* parsing function yields the parser afterwards and the node it returns.  *)
(***************************************************************************)
\* The successive results of lexer_next_token_ex on lx, to the first EOF,
\* when nothing is pushed back: each token with the lexer after it.
RECURSIVE TokensFrom(_)
TokensFrom(lx) ==
    LET rest(r) ==
            IF r.token.type = "TOKEN_EOF" THEN <<[token |-> r.token, lexer |-> r.lexer]>>
            ELSE <<[token |-> r.token, lexer |-> r.lexer]>> \o TokensFrom(r.lexer)
    IN  rest(lexer_next_token_ex(lx, Statics(FALSE, ZeroToken, FALSE, ZeroToken)))

\* The result of the call of lexer_next_token_ex the parser makes next.
next_token(parser) ==
    parser.tokens[IF parser.fetched < Len(parser.tokens) THEN parser.fetched + 1
                  ELSE Len(parser.tokens)]

\* parser_error_at.  The message is kept as the fields snprintf formats.
parser_error_at(parser, token, message) ==
    IF parser.panic_mode THEN parser
    ELSE [parser EXCEPT !.panic_mode = TRUE, !.had_error = TRUE,
                        !.error_msg = <<token.line, token.column, message, token.value>>]

parser_error(parser, message) == parser_error_at(parser, parser.current, message)

parser_had_error(parser) == parser.had_error

\* The loop of advance.
RECURSIVE advance_loop(_)
advance_loop(parser) ==
    LET fetched(p) ==
            IF p.current.type # "TOKEN_ERROR" THEN p
            ELSE advance_loop(parser_error_at(p, p.current, p.current.value))
    IN  fetched([parser EXCEPT !.current = next_token(parser).token,
                               !.lexer = next_token(parser).lexer,
                               !.fetched = @ + 1])

advance(parser) == advance_loop([parser EXCEPT !.previous = parser.current])

check(parser, type) == parser.current.type = type

\* match: whether the token matched, and the parser afterwards.
match(parser, type) ==
    [matched |-> check(parser, type),
     parser |-> IF check(parser, type) THEN advance(parser) ELSE parser]

consume(parser, type, message) ==
    IF parser.current.type = type THEN advance(parser)
    ELSE parser_error_at(parser, parser.current, message)

\* parser_init.  garbage is what the memory of the parser_t holds in current
\* before the first advance.
parser_init(lexer, garbage) ==
    advance([lexer |-> lexer, tokens |-> TokensFrom(lexer), fetched |-> 0, allocated |-> 0,
             current |-> garbage, previous |-> garbage,
             had_error |-> FALSE, panic_mode |-> FALSE, error_msg |-> <<>>,
             hang |-> FALSE])

\* What a parsing function yields.
Parsed(parser, node) == [parser |-> parser, node |-> node]

\* The node with a fresh type descriptor of the given base type as data_type.
Typed(parser, node, base) ==
    Parsed([parser EXCEPT !.allocated = @ + 1],
           [node EXCEPT !.data_type = type_create(parser.allocated + 1, base)])

\* The parsing functions call parse_expression, parse_assignment_expression
\* and parse_statement, which parser.h declares ahead of them, through parse.
RECURSIVE parse(_, _)

parse_primary_expression(parser) ==
    LET literal(p, kind, base) ==
            Typed(p, [ast_create_node(kind) EXCEPT !.value = p.previous.int_val,
                                                   !.name = p.previous.value], base)
        string(p) ==
            Parsed([p EXCEPT !.allocated = @ + 2],
                   [ast_create_node("NODE_STRING") EXCEPT
                       !.value = p.previous.value,
                       !.data_type = type_create_pointer(p.allocated + 2,
                                         type_create(p.allocated + 1, "TYPE_CHAR"))])
        char(p) ==
            Typed(p, [ast_create_node("NODE_CHAR") EXCEPT !.value = p.previous.int_val],
                  "TYPE_CHAR")
        identifier(p) ==
            Parsed(p, [ast_create_node("NODE_IDENTIFIER") EXCEPT !.name = p.previous.value])
        boolean(p) ==
            Typed(p, [ast_create_node("NODE_NUMBER") EXCEPT
                         !.value = int64_t(IF p.previous.type = "TOKEN_TRUE" THEN 1 ELSE 0)],
                  "TYPE_INT")
        null(p) == Typed(p, ast_create_node("NODE_NUMBER"), "TYPE_POINTER")
        closed(r) ==
            Parsed(consume(r.parser, "TOKEN_RPAREN", "Expected ')' after expression"),
                   r.node)
    IN  IF match(parser, "TOKEN_NUMBER").matched
        THEN literal(match(parser, "TOKEN_NUMBER").parser, "NODE_NUMBER", "TYPE_INT")
        ELSE IF match(parser, "TOKEN_FLOAT").matched
        THEN literal(match(parser, "TOKEN_FLOAT").parser, "NODE_FLOAT", "TYPE_FLOAT")
        ELSE IF match(parser, "TOKEN_STRING").matched
        THEN string(match(parser, "TOKEN_STRING").parser)
        ELSE IF match(parser, "TOKEN_CHAR").matched
        THEN char(match(parser, "TOKEN_CHAR").parser)
        ELSE IF match(parser, "TOKEN_IDENTIFIER").matched
        THEN identifier(match(parser, "TOKEN_IDENTIFIER").parser)
        ELSE IF match(parser, "TOKEN_TRUE").matched
        THEN boolean(match(parser, "TOKEN_TRUE").parser)
        ELSE IF match(parser, "TOKEN_FALSE").matched
        THEN boolean(match(parser, "TOKEN_FALSE").parser)
        ELSE IF match(parser, "TOKEN_NULL_LITERAL").matched
        THEN null(match(parser, "TOKEN_NULL_LITERAL").parser)
        ELSE IF match(parser, "TOKEN_LPAREN").matched
        THEN closed(parse("parse_expression", match(parser, "TOKEN_LPAREN").parser))
        ELSE Parsed(parser_error(parser, "Expected expression"), NULL)

\* The argument loop of a call: call is the CALL node so far.
RECURSIVE argument_loop(_, _)
argument_loop(parser, call) ==
    LET added(r) ==
            IF match(r.parser, "TOKEN_COMMA").matched
            THEN argument_loop(match(r.parser, "TOKEN_COMMA").parser,
                               ast_add_child(call, r.node))
            ELSE Parsed(r.parser, ast_add_child(call, r.node))
    IN  added(parse("parse_assignment_expression", parser))

\* The loop of parse_postfix_expression: node is the expression so far.
RECURSIVE postfix_loop(_, _)
postfix_loop(parser, node) ==
    LET over(kind) == [ast_create_node(kind) EXCEPT !.left = node]
        called(r) ==
            postfix_loop(consume(r.parser, "TOKEN_RPAREN", "Expected ')' after arguments"),
                         r.node)
        call(p) ==
            called(IF ~check(p, "TOKEN_RPAREN") THEN argument_loop(p, over("NODE_CALL"))
                   ELSE Parsed(p, over("NODE_CALL")))
        indexed(r) ==
            postfix_loop(consume(r.parser, "TOKEN_RBRACKET", "Expected ']' after array index"),
                         [over("NODE_ARRAY_ACCESS") EXCEPT !.right = r.node])
        \* p is the parser after the consume of the member name
        member(p, kind) ==
            postfix_loop(p, [over(kind) EXCEPT
                                !.right = [ast_create_node("NODE_IDENTIFIER") EXCEPT
                                              !.name = p.previous.value]])
    IN  IF match(parser, "TOKEN_LPAREN").matched
        THEN call(match(parser, "TOKEN_LPAREN").parser)
        ELSE IF match(parser, "TOKEN_LBRACKET").matched
        THEN indexed(parse("parse_expression", match(parser, "TOKEN_LBRACKET").parser))
        ELSE IF match(parser, "TOKEN_DOT").matched
        THEN member(consume(match(parser, "TOKEN_DOT").parser, "TOKEN_IDENTIFIER",
                            "Expected member name"), "NODE_MEMBER_ACCESS")
        ELSE IF match(parser, "TOKEN_ARROW").matched
        THEN member(consume(match(parser, "TOKEN_ARROW").parser, "TOKEN_IDENTIFIER",
                            "Expected member name"), "NODE_PTR_MEMBER")
        ELSE IF match(parser, "TOKEN_INCREMENT").matched
        THEN postfix_loop(match(parser, "TOKEN_INCREMENT").parser, over("NODE_POST_INC"))
        ELSE IF match(parser, "TOKEN_DECREMENT").matched
        THEN postfix_loop(match(parser, "TOKEN_DECREMENT").parser, over("NODE_POST_DEC"))
        ELSE Parsed(parser, node)

parse_postfix_expression(parser) ==
    LET from(r) == postfix_loop(r.parser, r.node)
    IN  from(parse_primary_expression(parser))

RECURSIVE parse_unary_expression(_)
parse_unary_expression(parser) ==
    LET under(node, r) == Parsed(r.parser, [node EXCEPT !.left = r.node])
        prefix(p, kind) == under(ast_create_node(kind), parse_unary_expression(p))
        unary_op(p, op) ==
            under([ast_create_node("NODE_UNARY_OP") EXCEPT !.op = op],
                  parse_unary_expression(p))
        sized(r) == Typed(r.parser, r.node, "TYPE_INT")
        closed(r) ==
            Parsed(consume(r.parser, "TOKEN_RPAREN", "Expected ')' after sizeof expression"),
                   r.node)
        sizeof(p) ==
            sized(under(ast_create_node("NODE_SIZEOF"),
                        IF match(p, "TOKEN_LPAREN").matched
                        THEN closed(parse("parse_expression", match(p, "TOKEN_LPAREN").parser))
                        ELSE parse_unary_expression(p)))
    IN  IF match(parser, "TOKEN_INCREMENT").matched
        THEN prefix(match(parser, "TOKEN_INCREMENT").parser, "NODE_PRE_INC")
        ELSE IF match(parser, "TOKEN_DECREMENT").matched
        THEN prefix(match(parser, "TOKEN_DECREMENT").parser, "NODE_PRE_DEC")
        ELSE IF match(parser, "TOKEN_PLUS").matched
        THEN parse_unary_expression(match(parser, "TOKEN_PLUS").parser)
        ELSE IF match(parser, "TOKEN_MINUS").matched
        THEN unary_op(match(parser, "TOKEN_MINUS").parser, <<Ch_minus>>)
        ELSE IF match(parser, "TOKEN_NOT").matched
        THEN unary_op(match(parser, "TOKEN_NOT").parser, <<Ch_bang>>)
        ELSE IF match(parser, "TOKEN_BIT_NOT").matched
        THEN unary_op(match(parser, "TOKEN_BIT_NOT").parser, <<Ch_tilde>>)
        ELSE IF match(parser, "TOKEN_BIT_AND").matched
        THEN prefix(match(parser, "TOKEN_BIT_AND").parser, "NODE_ADDRESS_OF")
        ELSE IF match(parser, "TOKEN_MULTIPLY").matched
        THEN prefix(match(parser, "TOKEN_MULTIPLY").parser, "NODE_DEREFERENCE")
        ELSE IF match(parser, "TOKEN_SIZEOF").matched
        THEN sizeof(match(parser, "TOKEN_SIZEOF").parser)
        ELSE parse_postfix_expression(parser)

\* The binary operators by precedence level: parse_multiplicative_expression
\* is level 1 and parse_logical_or_expression level 10.  Each level parses
\* its operands at the level below, and level 0 is parse_unary_expression.
binary_tokens(level) ==
    CASE level = 1 -> {"TOKEN_MULTIPLY", "TOKEN_DIVIDE", "TOKEN_MODULO"}
      [] level = 2 -> {"TOKEN_PLUS", "TOKEN_MINUS"}
      [] level = 3 -> {"TOKEN_LSHIFT", "TOKEN_RSHIFT"}
      [] level = 4 -> {"TOKEN_LT", "TOKEN_GT", "TOKEN_LE", "TOKEN_GE"}
      [] level = 5 -> {"TOKEN_EQ", "TOKEN_NE"}
      [] level = 6 -> {"TOKEN_BIT_AND"}
      [] level = 7 -> {"TOKEN_BIT_XOR"}
      [] level = 8 -> {"TOKEN_BIT_OR"}
      [] level = 9 -> {"TOKEN_AND"}
      [] level = 10 -> {"TOKEN_OR"}

\* What the level copies into op: the text of the token at levels 1 to 5,
\* a literal above.
binary_op_text(level, token) ==
    CASE level = 6 -> <<Ch_amp>>
      [] level = 7 -> <<Ch_caret>>
      [] level = 8 -> <<Ch_pipe>>
      [] level = 9 -> <<Ch_amp, Ch_amp>>
      [] level = 10 -> <<Ch_pipe, Ch_pipe>>
      [] OTHER -> token.value

RECURSIVE binary_expression(_, _), binary_loop(_, _)
\* The while loop of a level: left is what has been parsed so far.
binary_loop(left, level) ==
    LET joined(p, r) ==
            Parsed(r.parser, [ast_create_node("NODE_BINARY_OP") EXCEPT
                                 !.op = binary_op_text(level, p.previous),
                                 !.left = left.node, !.right = r.node])
        \* p is the parser after the match
        operand(p) == joined(p, binary_expression(p, level - 1))
    IN  IF left.parser.current.type \in binary_tokens(level)
        THEN binary_loop(operand(advance(left.parser)), level)
        ELSE left

binary_expression(parser, level) ==
    IF level = 0 THEN parse_unary_expression(parser)
    ELSE binary_loop(binary_expression(parser, level - 1), level)

parse_logical_or_expression(parser) == binary_expression(parser, 10)

RECURSIVE parse_conditional_expression(_)
parse_conditional_expression(parser) ==
    LET ternary(left, right, r) ==
            Parsed(r.parser, [ast_create_node("NODE_TERNARY") EXCEPT
                                 !.left = left, !.right = right, !.extra = r.node])
        second(left, r) ==
            ternary(left, r.node,
                    parse_conditional_expression(
                        consume(r.parser, "TOKEN_COLON", "Expected ':' in ternary expression")))
        first(r) ==
            IF match(r.parser, "TOKEN_QUESTION").matched
            THEN second(r.node, parse("parse_expression", match(r.parser, "TOKEN_QUESTION").parser))
            ELSE r
    IN  first(parse_logical_or_expression(parser))

token_is_assignment_op(type) ==
    type \in {"TOKEN_ASSIGN", "TOKEN_PLUS_ASSIGN", "TOKEN_MINUS_ASSIGN", "TOKEN_MUL_ASSIGN",
              "TOKEN_DIV_ASSIGN", "TOKEN_MOD_ASSIGN", "TOKEN_AND_ASSIGN", "TOKEN_OR_ASSIGN",
              "TOKEN_XOR_ASSIGN", "TOKEN_LSHIFT_ASSIGN", "TOKEN_RSHIFT_ASSIGN"}

parse_assignment_expression(parser) ==
    LET assigned(node, left, r) ==
            Parsed(r.parser, [node EXCEPT !.left = left, !.right = r.node])
        \* p is the parser after the advance over the operator
        assign(op_type, left, p) ==
            assigned(IF op_type = "TOKEN_ASSIGN" THEN ast_create_node("NODE_ASSIGN")
                     ELSE [ast_create_node("NODE_COMPOUND_ASSIGN") EXCEPT
                              !.op = p.previous.value],
                     left, parse("parse_assignment_expression", p))
        target(r) ==
            IF token_is_assignment_op(r.parser.current.type)
            THEN assign(r.parser.current.type, r.node, advance(r.parser))
            ELSE r
    IN  target(parse_conditional_expression(parser))

\* The comma loop of parse_expression.
RECURSIVE comma_loop(_)
comma_loop(left) ==
    LET joined(r) ==
            Parsed(r.parser, [ast_create_node("NODE_COMMA") EXCEPT
                                 !.left = left.node, !.right = r.node])
    IN  IF match(left.parser, "TOKEN_COMMA").matched
        THEN comma_loop(joined(parse("parse_assignment_expression",
                                   match(left.parser, "TOKEN_COMMA").parser)))
        ELSE left

parse_expression(parser) == comma_loop(parse("parse_assignment_expression", parser))

\* The loop of parse_block: block is the BLOCK node so far.  A statement that
\* returns without having taken a token leaves the parser where it was, so
\* the loop never ends: hang records that, and the loop is left.
RECURSIVE block_loop(_, _)
block_loop(parser, block) ==
    LET added(r) ==
            IF r.parser.hang \/ r.parser.fetched = parser.fetched
            THEN Parsed([r.parser EXCEPT !.hang = TRUE], ast_add_child(block, r.node))
            ELSE block_loop(r.parser, ast_add_child(block, r.node))
    IN  IF ~check(parser, "TOKEN_RBRACE") /\ ~check(parser, "TOKEN_EOF")
        THEN added(parse("parse_statement", parser))
        ELSE Parsed(parser, block)

parse_block(parser) ==
    LET closed(r) == Parsed(consume(r.parser, "TOKEN_RBRACE", "Expected '}'"), r.node)
    IN  closed(block_loop(consume(parser, "TOKEN_LBRACE", "Expected '{'"),
                          ast_create_node("NODE_BLOCK")))

\* The condition in parentheses of an if or a while, put into left.
parenthesized_condition(parser, node, after) ==
    LET closed(r) ==
            Parsed(consume(r.parser, "TOKEN_RPAREN", "Expected ')' after condition"),
                   [node EXCEPT !.left = r.node])
    IN  closed(parse("parse_expression", consume(parser, "TOKEN_LPAREN", after)))

parse_if_statement(parser) ==
    LET else_of(node, r) == Parsed(r.parser, [node EXCEPT !.extra = r.node])
        then_of(node, r) ==
            IF match(r.parser, "TOKEN_ELSE").matched
            THEN else_of([node EXCEPT !.right = r.node],
                         parse("parse_statement", match(r.parser, "TOKEN_ELSE").parser))
            ELSE Parsed(r.parser, [node EXCEPT !.right = r.node])
        body(c) == then_of(c.node, parse("parse_statement", c.parser))
    IN  body(parenthesized_condition(parser, ast_create_node("NODE_IF"), "Expected '(' after 'if'"))

parse_while_statement(parser) ==
    LET body_of(node, r) == Parsed(r.parser, [node EXCEPT !.right = r.node])
        body(c) == body_of(c.node, parse("parse_statement", c.parser))
    IN  body(parenthesized_condition(parser, ast_create_node("NODE_WHILE"), "Expected '(' after 'while'"))

parse_do_while_statement(parser) ==
    LET ended(node, r) ==
            Parsed(consume(consume(r.parser, "TOKEN_RPAREN", "Expected ')' after condition"),
                           "TOKEN_SEMICOLON", "Expected ';' after do-while"),
                   [node EXCEPT !.right = r.node])
        body(r) ==
            ended([ast_create_node("NODE_DO_WHILE") EXCEPT !.left = r.node],
                  parse("parse_expression",
                      consume(consume(r.parser, "TOKEN_WHILE", "Expected 'while' after do body"),
                              "TOKEN_LPAREN", "Expected '(' after 'while'")))
    IN  body(parse("parse_statement", parser))

parse_for_statement(parser) ==
    LET body(node, r) == Parsed(r.parser, ast_add_child(node, r.node))
        stepped(node, r) ==
            body([node EXCEPT !.extra = r.node],
                 parse("parse_statement", consume(r.parser, "TOKEN_RPAREN",
                                         "Expected ')' after for clauses")))
        step(node, p) ==
            stepped(node, IF check(p, "TOKEN_RPAREN") THEN Parsed(p, NULL)
                          ELSE parse("parse_expression", p))
        ended(r, message) == Parsed(consume(r.parser, "TOKEN_SEMICOLON", message), r.node)
        clause(p, message) ==
            IF match(p, "TOKEN_SEMICOLON").matched
            THEN Parsed(match(p, "TOKEN_SEMICOLON").parser, NULL)
            ELSE ended(parse("parse_expression", p), message)
        cond(node, r) == step([node EXCEPT !.right = r.node], r.parser)
        init(node, r) ==
            cond([node EXCEPT !.left = r.node],
                 clause(r.parser, "Expected ';' after for condition"))
    IN  init(ast_create_node("NODE_FOR"),
             clause(consume(parser, "TOKEN_LPAREN", "Expected '(' after 'for'"),
                    "Expected ';' after for init"))

parse_return_statement(parser) ==
    LET ended(r) ==
            Parsed(consume(r.parser, "TOKEN_SEMICOLON", "Expected ';' after return"),
                   [ast_create_node("NODE_RETURN") EXCEPT !.left = r.node])
    IN  ended(IF ~check(parser, "TOKEN_SEMICOLON") THEN parse("parse_expression", parser)
              ELSE Parsed(parser, NULL))

parse_break_statement(parser) ==
    Parsed(consume(parser, "TOKEN_SEMICOLON", "Expected ';' after break"),
           ast_create_node("NODE_BREAK"))

parse_continue_statement(parser) ==
    Parsed(consume(parser, "TOKEN_SEMICOLON", "Expected ';' after continue"),
           ast_create_node("NODE_CONTINUE"))

parse_statement(parser) ==
    LET ended(r) ==
            Parsed(consume(r.parser, "TOKEN_SEMICOLON", "Expected ';' after expression"),
                   [ast_create_node("NODE_EXPR_STMT") EXCEPT !.left = r.node])
    IN  IF check(parser, "TOKEN_LBRACE") THEN parse_block(parser)
        ELSE IF match(parser, "TOKEN_IF").matched
        THEN parse_if_statement(match(parser, "TOKEN_IF").parser)
        ELSE IF match(parser, "TOKEN_WHILE").matched
        THEN parse_while_statement(match(parser, "TOKEN_WHILE").parser)
        ELSE IF match(parser, "TOKEN_DO").matched
        THEN parse_do_while_statement(match(parser, "TOKEN_DO").parser)
        ELSE IF match(parser, "TOKEN_FOR").matched
        THEN parse_for_statement(match(parser, "TOKEN_FOR").parser)
        ELSE IF match(parser, "TOKEN_RETURN").matched
        THEN parse_return_statement(match(parser, "TOKEN_RETURN").parser)
        ELSE IF match(parser, "TOKEN_BREAK").matched
        THEN parse_break_statement(match(parser, "TOKEN_BREAK").parser)
        ELSE IF match(parser, "TOKEN_CONTINUE").matched
        THEN parse_continue_statement(match(parser, "TOKEN_CONTINUE").parser)
        ELSE ended(parse("parse_expression", parser))

parse(function, parser) ==
    CASE function = "parse_expression" -> parse_expression(parser)
      [] function = "parse_assignment_expression" -> parse_assignment_expression(parser)
      [] function = "parse_statement" -> parse_statement(parser)

\* parse_type_specifier: the parser afterwards and the descriptor returned.
parse_type_specifier(parser) ==
    LET created(p, base) ==
            [parser |-> [p EXCEPT !.allocated = @ + 1],
             type |-> type_create(p.allocated + 1, base)]
        qualified(r, token, qualifier) ==
            IF match(r.parser, token).matched
            THEN [parser |-> match(r.parser, token).parser,
                  type |-> [r.type EXCEPT !.qualifiers = @ \union {qualifier}]]
            ELSE r
        sign(r) ==
            IF check(r.parser, "TOKEN_UNSIGNED")
            THEN qualified(r, "TOKEN_UNSIGNED", "QUAL_UNSIGNED")
            ELSE qualified(r, "TOKEN_SIGNED", "QUAL_SIGNED")
        qualifiers(r) ==
            qualified(qualified(sign(r), "TOKEN_CONST", "QUAL_CONST"),
                      "TOKEN_VOLATILE", "QUAL_VOLATILE")
        base(token, type) == qualifiers(created(match(parser, token).parser, type))
    IN  IF match(parser, "TOKEN_VOID").matched THEN base("TOKEN_VOID", "TYPE_VOID")
        ELSE IF match(parser, "TOKEN_CHAR_TYPE").matched THEN base("TOKEN_CHAR_TYPE", "TYPE_CHAR")
        ELSE IF match(parser, "TOKEN_SHORT").matched THEN base("TOKEN_SHORT", "TYPE_SHORT")
        ELSE IF match(parser, "TOKEN_INT").matched THEN base("TOKEN_INT", "TYPE_INT")
        ELSE IF match(parser, "TOKEN_LONG").matched THEN base("TOKEN_LONG", "TYPE_LONG")
        ELSE IF match(parser, "TOKEN_FLOAT_TYPE").matched THEN base("TOKEN_FLOAT_TYPE", "TYPE_FLOAT")
        ELSE IF match(parser, "TOKEN_DOUBLE").matched THEN base("TOKEN_DOUBLE", "TYPE_DOUBLE")
        ELSE IF match(parser, "TOKEN_PROCESS").matched THEN base("TOKEN_PROCESS", "TYPE_PROCESS")
        ELSE IF match(parser, "TOKEN_SEMAPHORE").matched
        THEN base("TOKEN_SEMAPHORE", "TYPE_SEMAPHORE")
        ELSE created(parser_error(parser, "Expected type specifier"), "TYPE_INT")

\* The loop of parse_variable_declaration over the array dimensions.
RECURSIVE dimension_loop(_, _)
dimension_loop(parser, node) ==
    LET \* p is the parser after the size, if there is one
        dimension(p, size) ==
            dimension_loop(
                [consume(p, "TOKEN_RBRACKET", "Expected ']'") EXCEPT !.allocated = @ + 1],
                [node EXCEPT !.data_type = type_create_array(p.allocated + 1, @, size)])
        bracket(p) ==
            IF check(p, "TOKEN_NUMBER") THEN dimension(advance(p), int32_t(p.current.int_val))
            ELSE dimension(p, 0)
    IN  IF match(parser, "TOKEN_LBRACKET").matched
        THEN bracket(match(parser, "TOKEN_LBRACKET").parser)
        ELSE Parsed(parser, node)

parse_variable_declaration(parser, type) ==
    LET ended(r, node) ==
            Parsed(consume(r.parser, "TOKEN_SEMICOLON", "Expected ';' after declaration"),
                   [node EXCEPT !.left = r.node])
        initializer(r) ==
            IF match(r.parser, "TOKEN_ASSIGN").matched
            THEN ended(parse("parse_assignment_expression", match(r.parser, "TOKEN_ASSIGN").parser),
                       r.node)
            ELSE ended(Parsed(r.parser, r.node.left), r.node)
        \* p is the parser after the consume of the name
        named(p) ==
            initializer(dimension_loop(p, [ast_create_node("NODE_VAR_DECL") EXCEPT
                                              !.data_type = type, !.name = p.previous.value]))
    IN  named(consume(parser, "TOKEN_IDENTIFIER", "Expected variable name"))

\* The parameter loop of parse_function: node is the FUNCTION node so far.
RECURSIVE parameter_loop(_, _)
parameter_loop(parser, node) ==
    LET next(p, param) ==
            IF match(p, "TOKEN_COMMA").matched
            THEN parameter_loop(match(p, "TOKEN_COMMA").parser, ast_add_child(node, param))
            ELSE Parsed(p, ast_add_child(node, param))
        param(t) ==
            IF check(t.parser, "TOKEN_IDENTIFIER")
            THEN next(advance(t.parser),
                      [ast_create_node("NODE_PARAM") EXCEPT
                          !.data_type = t.type, !.name = t.parser.current.value])
            ELSE next(t.parser, [ast_create_node("NODE_PARAM") EXCEPT !.data_type = t.type])
    IN  param(parse_type_specifier(parser))

parse_function(parser, return_type, name) ==
    LET with_body(node, r) == Parsed(r.parser, [node EXCEPT !.left = r.node])
        \* p is the parser after the consume of the closing parenthesis
        body(p, node) ==
            IF check(p, "TOKEN_LBRACE") THEN with_body(node, parse_block(p))
            ELSE Parsed(consume(p, "TOKEN_SEMICOLON", "Expected ';' or function body"), node)
        parameters(r) ==
            body(consume(r.parser, "TOKEN_RPAREN", "Expected ')' after parameters"), r.node)
        \* p is the parser after the consume of the opening parenthesis
        header(p, node) ==
            parameters(IF ~check(p, "TOKEN_RPAREN") THEN parameter_loop(p, node)
                       ELSE Parsed(p, node))
    IN  header(consume(parser, "TOKEN_LPAREN", "Expected '(' after function name"),
               [ast_create_node("NODE_FUNCTION") EXCEPT
                   !.data_type = return_type, !.name = name])

\* The loop of parse_declaration over the stars: t is the parser and the
\* type so far.
RECURSIVE pointer_loop(_)
pointer_loop(t) ==
    LET pointer(p) ==
            pointer_loop([parser |-> [p EXCEPT !.allocated = @ + 1],
                          type |-> type_create_pointer(p.allocated + 1, t.type)])
    IN  IF match(t.parser, "TOKEN_MULTIPLY").matched
        THEN pointer(match(t.parser, "TOKEN_MULTIPLY").parser)
        ELSE t

parse_declaration(parser) ==
    LET \* p is the parser after the consume of the identifier
        declared(p, type) ==
            IF check(p, "TOKEN_LPAREN") THEN parse_function(p, type, p.previous.value)
            ELSE parse_variable_declaration(advance([p EXCEPT !.current = p.previous]), type)
        named(t) ==
            declared(consume(t.parser, "TOKEN_IDENTIFIER", "Expected identifier"), t.type)
        storage(p) == named(pointer_loop(parse_type_specifier(p)))
    IN  IF match(parser, "TOKEN_STATIC").matched
        THEN storage(match(parser, "TOKEN_STATIC").parser)
        ELSE IF match(parser, "TOKEN_EXTERN").matched
        THEN storage(match(parser, "TOKEN_EXTERN").parser)
        ELSE storage(parser)

\* The loop of parser_synchronize.
RECURSIVE synchronize_loop(_)
synchronize_loop(parser) ==
    IF parser.current.type # "TOKEN_EOF"
    THEN IF parser.previous.type = "TOKEN_SEMICOLON" THEN parser
         ELSE IF parser.current.type \in
                    {"TOKEN_IF", "TOKEN_WHILE", "TOKEN_FOR", "TOKEN_RETURN",
                     "TOKEN_INT", "TOKEN_VOID", "TOKEN_CHAR_TYPE", "TOKEN_FLOAT_TYPE"}
         THEN parser
         ELSE synchronize_loop(advance(parser))
    ELSE parser

parser_synchronize(parser) == synchronize_loop([parser EXCEPT !.panic_mode = FALSE])

\* One iteration of the loop of parser_parse_program, which is entered while
\* the current token is not EOF: program is the PROGRAM node so far.
program_loop(parser, program) ==
    LET added(r) == Parsed(r.parser, ast_add_child(program, r.node))
    IN  IF parser.had_error THEN Parsed(parser_synchronize(parser), program)
        ELSE added(parse_declaration(parser))

(***************************************************************************)
(* Symbol table (symbol_table.c)                                           *)
(***************************************************************************)
HASH_TABLE_SIZE == 128

\* hash: djb2 in unsigned arithmetic, reduced modulo HASH_TABLE_SIZE at the
\* end.  HASH_TABLE_SIZE divides 2^32, so reducing at every step gives the
\* same result.
RECURSIVE hash_loop(_, _, _)
hash_loop(str, i, h) ==
    IF i > Len(str) THEN h
    ELSE hash_loop(str, i + 1, (h * 33 + str[i]) % HASH_TABLE_SIZE)

hash(str) == hash_loop(str, 1, 5381 % HASH_TABLE_SIZE)

scope_create(parent, level) ==
    [level |-> level, symbols |-> [i \in 0..(HASH_TABLE_SIZE - 1) |-> <<>>],
     symbol_count |-> 0, next_offset |-> 0, parent |-> parent]

\* The address getmem returns for a new scope: the lowest one not in use.
\* Address 0 is the null pointer.
scope_alloc(scopes) ==
    CHOOSE a \in 1..(Cardinality(DOMAIN scopes) + 1) :
        a \notin DOMAIN scopes /\ \A b \in 1..(a - 1) : b \in DOMAIN scopes

\* scope_destroy: the scope's memory is released.
scope_destroy(scopes, scope) == [a \in DOMAIN scopes \ {scope} |-> scopes[a]]

\* symtab_create.  scopes holds the scope_t objects by address.
symtab_create ==
    [scopes |-> (1 :> scope_create(0, 0)), scope_level |-> 0, global_scope |-> 1,
     current_scope |-> 1, had_error |-> FALSE, error_msg |-> <<>>]

symtab_enter_scope(table) ==
    LET enter(a) ==
            [table EXCEPT !.scope_level = @ + 1,
                          !.scopes = (a :> scope_create(table.current_scope, table.scope_level + 1)) @@ @,
                          !.current_scope = a]
    IN  enter(scope_alloc(table.scopes))

\* symtab_exit_scope without the decrement of scope_level.
symtab_exit_scope_level_kept(table) ==
    IF table.current_scope = table.global_scope THEN table
    ELSE [table EXCEPT !.current_scope = table.scopes[table.current_scope].parent,
                       !.scopes = scope_destroy(@, table.current_scope)]

symtab_exit_scope(table) ==
    IF table.current_scope = table.global_scope THEN table
    ELSE [table EXCEPT !.current_scope = table.scopes[table.current_scope].parent,
                       !.scope_level = @ - 1,
                       !.scopes = scope_destroy(@, table.current_scope)]

\* A walk of a hash chain that takes the head of the chain for the symbol.
chain_lookup_head(chain, i, name) == IF chain = <<>> THEN NULL ELSE chain[1]

\* The walk of a hash chain: the first symbol of the chain with the name.
RECURSIVE chain_lookup(_, _, _)
chain_lookup(chain, i, name) ==
    IF i > Len(chain) THEN NULL
    ELSE IF chain[i].name = name THEN chain[i]
    ELSE chain_lookup(chain, i + 1, name)

symtab_lookup_current_scope(table, name) ==
    chain_lookup(table.scopes[table.current_scope].symbols[hash(name)], 1, name)

\* The test with the outer scopes looked into as well.
symtab_exists_any_scope(table, name) ==
    \E scope \in DOMAIN table.scopes :
        \E h \in DOMAIN table.scopes[scope].symbols :
            \E i \in 1..Len(table.scopes[scope].symbols[h]) :
                table.scopes[scope].symbols[h][i].name = name

symtab_exists_current_scope(table, name) ==
    symtab_lookup_current_scope(table, name) # NULL

\* symtab_insert with next_offset advanced for every kind of symbol.
symtab_insert_every_kind(table, name, kind, type) ==
    LET stored(symbol) ==
            [table |-> [table EXCEPT
                           !.scopes[table.current_scope].next_offset = @ + type_size(type),
                           !.scopes[table.current_scope].symbols[hash(name)] = <<symbol>> \o @,
                           !.scopes[table.current_scope].symbol_count = @ + 1],
             symbol |-> symbol]
    IN  IF symtab_exists_current_scope(table, name)
        THEN [table |-> [table EXCEPT !.had_error = TRUE], symbol |-> NULL]
        ELSE stored([name |-> Truncate(name), kind |-> kind, type |-> type,
                     scope_level |-> table.scope_level,
                     offset |-> table.scopes[table.current_scope].next_offset])

\* symtab_insert: the table afterwards and the symbol returned.
symtab_insert(table, name, kind, type) ==
    LET h == hash(name)
        cur == table.current_scope
        symbol == [name |-> Truncate(name), kind |-> kind, type |-> type,
                   scope_level |-> table.scope_level,
                   offset |-> table.scopes[cur].next_offset]
    IN  IF symtab_exists_current_scope(table, name)
        THEN [table |-> [table EXCEPT
                            !.error_msg = Str(<<"S","y","m","b","o","l"," ","'">>) \o name
                                \o Str(<<"'"," ","a","l","r","e","a","d","y"," ","d","e","c","l","a","r","e","d"," ","i","n"," ","c","u","r","r","e","n","t"," ","s","c","o","p","e">>),
                            !.had_error = TRUE],
              symbol |-> NULL]
        ELSE [table |-> [table EXCEPT
                            !.scopes[cur].next_offset =
                                IF kind \in {"SYM_VARIABLE", "SYM_PARAMETER"}
                                THEN @ + type_size(type) ELSE @,
                            !.scopes[cur].symbols[h] = <<symbol>> \o @,
                            !.scopes[cur].symbol_count = @ + 1],
              symbol |-> symbol]

\* The scope loop of symtab_lookup, from scope outward.
RECURSIVE scope_lookup(_, _, _)
scope_lookup(table, scope, name) ==
    LET found(sym) ==
            IF sym # NULL THEN sym
            ELSE scope_lookup(table, table.scopes[scope].parent, name)
    IN  IF scope = 0 THEN NULL
        ELSE found(chain_lookup(table.scopes[scope].symbols[hash(name)], 1, name))

symtab_lookup(table, name) == scope_lookup(table, table.current_scope, name)

symtab_had_error(table) == table.had_error

\* symtab_destroy: the addresses of the type descriptors given to freemem, in
\* the order of the calls.  chain_free is the loop of scope_destroy over the
\* symbols of a bucket, bucket_free its loop over the buckets from first to
\* last, and scope_free the loop of symtab_destroy from a scope to the global
\* one.
RECURSIVE chain_free(_, _)
chain_free(chain, i) ==
    IF i > Len(chain) THEN <<>>
    ELSE type_free(chain[i].type) \o chain_free(chain, i + 1)

RECURSIVE bucket_free(_, _, _)
bucket_free(scope, first, last) ==
    IF first = last THEN chain_free(scope.symbols[first], 1)
    ELSE bucket_free(scope, first, (first + last) \div 2)
         \o bucket_free(scope, (first + last) \div 2 + 1, last)

RECURSIVE scope_free(_, _)
scope_free(table, scope) ==
    IF scope = 0 THEN <<>>
    ELSE bucket_free(table.scopes[scope], 0, HASH_TABLE_SIZE - 1)
         \o scope_free(table, table.scopes[scope].parent)

symtab_destroy(table) ==
    IF table = NULL THEN <<>> ELSE scope_free(table, table.current_scope)

(***************************************************************************)
(* Code generator (codegen.c)                                              *)
(***************************************************************************)
INITIAL_CODE_CAPACITY == 1024


code_buffer_create ==
    [instructions |-> <<>>, count |-> 0, capacity |-> INITIAL_CODE_CAPACITY,
     label_counter |-> 0]

\* codegen_create that starts with the labels of a loop at index 0.
codegen_create_in_loop(symtab) ==
    [code |-> code_buffer_create, symtab |-> symtab, loop_break_label |-> 0,
     loop_continue_label |-> 0, had_error |-> FALSE, error_msg |-> <<>>]

codegen_create(symtab) ==
    [code |-> code_buffer_create, symtab |-> symtab, loop_break_label |-> -1,
     loop_continue_label |-> -1, had_error |-> FALSE, error_msg |-> <<>>]

\* instructions[i + 1] is the instruction at index i of the code buffer.
codegen_emit(gen, opcode, operand) ==
    [gen EXCEPT
        !.code.capacity = IF gen.code.count >= @ THEN @ * 2 ELSE @,
        !.code.instructions =
            Append(@, [opcode |-> opcode, operand |-> operand, label |-> <<>>]),
        !.code.count = @ + 1]

codegen_emit_label(gen, label) ==
    LET name(g) ==
            IF g.code.count > 0
            THEN [g EXCEPT !.code.instructions[g.code.count].label = label]
            ELSE g
    IN  name(codegen_emit(gen, "OP_NOP", 0))

\* codegen_new_label: the generator afterwards; the label returned is the
\* label_counter before the call.
codegen_new_label(gen) == [gen EXCEPT !.code.label_counter = @ + 1]

\* codegen_patch_jump that patches the instruction after the one at the
\* index as well.
codegen_patch_jump_and_next(gen, instruction_index, target) ==
    LET patch(g) ==
            IF instruction_index + 1 < gen.code.count
            THEN [g EXCEPT !.code.instructions[instruction_index + 2].operand = target]
            ELSE g
    IN  IF instruction_index >= 0 /\ instruction_index < gen.code.count
        THEN patch([gen EXCEPT !.code.instructions[instruction_index + 1].operand = target])
        ELSE gen

\* codegen_patch_jump that patches the last JZ of the buffer, whatever the index.
codegen_patch_jump_last_jz(gen, instruction_index, target) ==
    LET jzs == {j \in 1..gen.code.count : gen.code.instructions[j].opcode = "OP_JZ"}
        patch(j) == [gen EXCEPT !.code.instructions[j].operand = target]
    IN  IF instruction_index >= 0 /\ instruction_index < gen.code.count /\ jzs # {}
        THEN patch(CHOOSE j \in jzs : \A k \in jzs : k <= j)
        ELSE gen

\* codegen_patch_jump with the instruction before the target as the target.
codegen_patch_jump_before(gen, instruction_index, target) ==
    IF instruction_index >= 0 /\ instruction_index < gen.code.count
    THEN [gen EXCEPT !.code.instructions[instruction_index + 1].operand = target - 1]
    ELSE gen

\* codegen_patch_jump with the target taken from the end of the buffer.
codegen_patch_jump_past_end(gen, instruction_index, target) ==
    IF instruction_index >= 0 /\ instruction_index < gen.code.count
    THEN [gen EXCEPT !.code.instructions[instruction_index + 1].operand = target + gen.code.count]
    ELSE gen

codegen_patch_jump(gen, instruction_index, target) ==
    IF instruction_index >= 0 /\ instruction_index < gen.code.count
    THEN [gen EXCEPT !.code.instructions[instruction_index + 1].operand = target]
    ELSE gen

\* codegen_error that keeps the message and leaves had_error as it was.
codegen_error_message_only(gen, message) == [gen EXCEPT !.error_msg = message]

codegen_error(gen, message) ==
    [gen EXCEPT !.had_error = TRUE, !.error_msg = message]

RECURSIVE codegen_expression(_, _)

\* for (i = 0; i < node->child_count; i++) codegen_expression(gen, children[i])
RECURSIVE expression_loop(_, _, _)
expression_loop(gen, children, i) ==
    IF i > Len(children) THEN gen
    ELSE expression_loop(codegen_expression(gen, children[i]), children, i + 1)

codegen_expression(gen, node) ==
    LET \* gen after a load or store of the symbol sym
        access(g, sym, global, local) ==
            IF sym.scope_level = 0
            THEN codegen_emit(g, global, sym.offset)
            ELSE codegen_emit(g, local, sym.offset)
        identifier(sym) ==
            IF sym = NULL
            THEN codegen_error(gen, Str(<<"U","n","d","e","f","i","n","e","d"," ","v","a","r","i","a","b","l","e">>))
            ELSE access(gen, sym, "OP_LOADG", "OP_LOADL")
        binary_op(g) ==
            IF node.op = Str(<<"+">>) THEN codegen_emit(g, "OP_ADD", 0)
            ELSE IF node.op = Str(<<"-">>) THEN codegen_emit(g, "OP_SUB", 0)
            ELSE IF node.op = Str(<<"*">>) THEN codegen_emit(g, "OP_MUL", 0)
            ELSE IF node.op = Str(<<"/">>) THEN codegen_emit(g, "OP_DIV", 0)
            ELSE IF node.op = Str(<<"%">>) THEN codegen_emit(g, "OP_MOD", 0)
            ELSE IF node.op = Str(<<"&">>) THEN codegen_emit(g, "OP_AND", 0)
            ELSE IF node.op = Str(<<"|">>) THEN codegen_emit(g, "OP_OR", 0)
            ELSE IF node.op = Str(<<"^">>) THEN codegen_emit(g, "OP_XOR", 0)
            ELSE IF node.op = Str(<<"<","<">>) THEN codegen_emit(g, "OP_SHL", 0)
            ELSE IF node.op = Str(<<">",">">>) THEN codegen_emit(g, "OP_SHR", 0)
            ELSE IF node.op = Str(<<"=","=">>) THEN codegen_emit(g, "OP_EQ", 0)
            ELSE IF node.op = Str(<<"!","=">>) THEN codegen_emit(g, "OP_NE", 0)
            ELSE IF node.op = Str(<<"<">>) THEN codegen_emit(g, "OP_LT", 0)
            ELSE IF node.op = Str(<<"<","=">>) THEN codegen_emit(g, "OP_LE", 0)
            ELSE IF node.op = Str(<<">">>) THEN codegen_emit(g, "OP_GT", 0)
            ELSE IF node.op = Str(<<">","=">>) THEN codegen_emit(g, "OP_GE", 0)
            ELSE IF node.op = Str(<<"&","&">>) THEN codegen_emit(g, "OP_LAND", 0)
            ELSE IF node.op = Str(<<"|","|">>) THEN codegen_emit(g, "OP_LOR", 0)
            ELSE g
        unary_op(g) ==
            IF node.op = Str(<<"-">>) THEN codegen_emit(g, "OP_NEG", 0)
            ELSE IF node.op = Str(<<"!">>) THEN codegen_emit(g, "OP_LNOT", 0)
            ELSE IF node.op = Str(<<"~">>) THEN codegen_emit(g, "OP_NOT", 0)
            ELSE g
        assign(sym) ==
            IF sym = NULL
            THEN codegen_error(gen, Str(<<"U","n","d","e","f","i","n","e","d"," ","v","a","r","i","a","b","l","e">>))
            ELSE access(codegen_emit(codegen_expression(gen, node.right), "OP_DUP", 0),
                        sym, "OP_STOREG", "OP_STOREL")
        \* g is gen after the arguments have been pushed
        call(g, sym) ==
            IF sym = NULL
            THEN codegen_error(g, Str(<<"U","n","d","e","f","i","n","e","d"," ","f","u","n","c","t","i","o","n">>))
            ELSE codegen_emit(g, "OP_CALL", sym.offset)
    IN  IF node = NULL THEN gen
        ELSE CASE node.type = "NODE_NUMBER" ->
                    codegen_emit(gen, "OP_PUSH", int32_t(node.value))
               [] node.type = "NODE_IDENTIFIER" ->
                    identifier(symtab_lookup(gen.symtab, node.name))
               [] node.type = "NODE_BINARY_OP" ->
                    binary_op(codegen_expression(codegen_expression(gen, node.left), node.right))
               [] node.type = "NODE_UNARY_OP" ->
                    unary_op(codegen_expression(gen, node.left))
               [] node.type = "NODE_ASSIGN" ->
                    assign(symtab_lookup(gen.symtab, node.left.name))
               [] node.type = "NODE_CALL" ->
                    call(expression_loop(gen, node.children, 1),
                         symtab_lookup(gen.symtab, node.left.name))
               [] node.type = "NODE_GETPID" -> codegen_emit(gen, "OP_GETPID", 0)
               [] OTHER -> gen

RECURSIVE codegen_statement(_, _)

\* for (i = 0; i < node->child_count; i++) codegen_statement(gen, children[i])
RECURSIVE statement_loop(_, _, _)
statement_loop(gen, children, i) ==
    IF i > Len(children) THEN gen
    ELSE statement_loop(codegen_statement(gen, children[i]), children, i + 1)

codegen_statement(gen, node) ==
    LET restore(g) ==
            [g EXCEPT !.loop_break_label = gen.loop_break_label,
                      !.loop_continue_label = gen.loop_continue_label]
        \* NODE_IF: g is the generator after the condition, jz_index and
        \* jmp_index the indices of the jumps to patch
        if_else(g, jz_index, jmp_index) ==
            codegen_patch_jump(g, jmp_index, g.code.count)
        if_then(g, jz_index) ==
            IF node.extra # NULL
            THEN if_else(codegen_statement(
                             codegen_patch_jump(codegen_emit(g, "OP_JMP", 0),
                                                jz_index, g.code.count + 1),
                             node.extra),
                         jz_index, g.code.count)
            ELSE codegen_patch_jump(g, jz_index, g.code.count)
        if_cond(g) ==
            if_then(codegen_statement(codegen_emit(g, "OP_JZ", 0), node.right),
                    g.code.count)
        \* NODE_WHILE
        while_end(g, jz_index) ==
            restore(codegen_patch_jump(g, jz_index, g.code.count))
        while_cond(g, loop_start) ==
            while_end(codegen_emit(codegen_statement(codegen_emit(g, "OP_JZ", 0), node.right),
                                   "OP_JMP", loop_start),
                      g.code.count)
        \* NODE_FOR
        for_end(g) ==
            restore(IF node.right # NULL /\ g.loop_break_label >= 0
                    THEN codegen_patch_jump(g, g.loop_break_label, g.code.count)
                    ELSE g)
        for_step(g, loop_start) ==
            for_end(codegen_emit(IF node.extra # NULL
                                 THEN codegen_emit(codegen_expression(g, node.extra), "OP_POP", 0)
                                 ELSE g,
                                 "OP_JMP", loop_start))
        for_body(g, loop_start) ==
            for_step([g EXCEPT !.loop_continue_label = g.code.count], loop_start)
        for_jz(g) == [codegen_emit(g, "OP_JZ", 0) EXCEPT !.loop_break_label = g.code.count]
        for_cond(g, loop_start) ==
            for_body(IF Len(node.children) > 0
                     THEN codegen_statement(g, node.children[1])
                     ELSE g,
                     loop_start)
        for_init(g) ==
            for_cond(IF node.right # NULL
                     THEN for_jz(codegen_expression(g, node.right))
                     ELSE g,
                     g.code.count)
        \* the process operations with one argument
        operation(opcode) ==
            codegen_emit(codegen_expression(gen, node.left), opcode, 0)
    IN  IF node = NULL THEN gen
        ELSE CASE node.type = "NODE_EXPR_STMT" ->
                    codegen_emit(codegen_expression(gen, node.left), "OP_POP", 0)
               [] node.type = "NODE_RETURN" ->
                    codegen_emit(IF node.left # NULL
                                 THEN codegen_expression(gen, node.left)
                                 ELSE codegen_emit(gen, "OP_PUSH", 0),
                                 "OP_RET", 0)
               [] node.type = "NODE_IF" ->
                    if_cond(codegen_expression(codegen_new_label(codegen_new_label(gen)),
                                               node.left))
               [] node.type = "NODE_WHILE" ->
                    while_cond(codegen_expression(
                                   [gen EXCEPT !.loop_continue_label = gen.code.count],
                                   node.left),
                               gen.code.count)
               [] node.type = "NODE_FOR" ->
                    for_init(IF node.left # NULL
                             THEN codegen_emit(codegen_expression(gen, node.left), "OP_POP", 0)
                             ELSE gen)
               [] node.type = "NODE_BREAK" ->
                    IF gen.loop_break_label >= 0
                    THEN codegen_emit(gen, "OP_JMP", gen.loop_break_label)
                    ELSE gen
               [] node.type = "NODE_CONTINUE" ->
                    IF gen.loop_continue_label >= 0
                    THEN codegen_emit(gen, "OP_JMP", gen.loop_continue_label)
                    ELSE gen
               [] node.type = "NODE_BLOCK" -> statement_loop(gen, node.children, 1)
               [] node.type = "NODE_CREATE" ->
                    codegen_emit(expression_loop(gen, node.children, 1),
                                 "OP_CREATE", Len(node.children))
               [] node.type = "NODE_RESUME" -> operation("OP_RESUME")
               [] node.type = "NODE_SUSPEND" -> operation("OP_SUSPEND")
               [] node.type = "NODE_KILL" -> operation("OP_KILL")
               [] node.type = "NODE_SLEEP" -> operation("OP_SLEEP")
               [] node.type = "NODE_YIELD" -> codegen_emit(gen, "OP_YIELD", 0)
               [] node.type = "NODE_WAIT" -> operation("OP_WAIT")
               [] node.type = "NODE_SIGNAL" -> operation("OP_SIGNAL")
               [] OTHER -> gen

\* snprintf(label, "func_%s", node->name): the label of a function.
codegen_function(gen, node) ==
    LET body(g) == IF node.left # NULL THEN codegen_statement(g, node.left) ELSE g
    IN  IF node = NULL THEN gen
        ELSE codegen_emit(
                 codegen_emit(
                     body(codegen_emit_label(gen, Str(<<"f","u","n","c","_">>) \o node.name)),
                     "OP_PUSH", 0),
                 "OP_RET", 0)

\* The loop of codegen_program over the children of the program node.
RECURSIVE function_loop(_, _, _)
function_loop(gen, children, i) ==
    IF i > Len(children) THEN gen
    ELSE function_loop(IF children[i].type \in {"NODE_FUNCTION", "NODE_PROCESS"}
                       THEN codegen_function(gen, children[i])
                       ELSE gen,
                       children, i + 1)

\* codegen_program with a HALT after every function instead of one at the end.
codegen_program_halt_in_loop(gen, node) ==
    LET RECURSIVE halting_loop(_, _)
        halting_loop(g, i) ==
            IF i > Len(node.children) THEN g
            ELSE halting_loop(IF node.children[i].type \in {"NODE_FUNCTION", "NODE_PROCESS"}
                              THEN codegen_emit(codegen_function(g, node.children[i]),
                                                "OP_HALT", 0)
                              ELSE g,
                              i + 1)
    IN  IF node = NULL \/ node.type # "NODE_PROGRAM" THEN gen
        ELSE halting_loop(gen, 1)

codegen_program(gen, node) ==
    IF node = NULL \/ node.type # "NODE_PROGRAM" THEN gen
    ELSE codegen_emit(function_loop(gen, node.children, 1), "OP_HALT", 0)

\* codegen_generate: the generator afterwards and the value returned.
codegen_generate(gen, ast) ==
    LET result(g) == [gen |-> g, ok |-> ~g.had_error]
    IN  IF gen = NULL \/ ast = NULL THEN [gen |-> gen, ok |-> FALSE]
        ELSE result(codegen_program(gen, ast))

codegen_had_error(gen) == gen.had_error

(***************************************************************************)
(* Compiler driver (compiler.c)                                            *)
(***************************************************************************)
compiler_create(source) ==
    [source |-> source, lexer |-> NULL, parser |-> NULL, symtab |-> NULL,
     codegen |-> NULL, ast |-> NULL, had_error |-> FALSE, error_count |-> 0,
     error_msg |-> <<>>]

compiler_error(compiler, message) ==
    [compiler EXCEPT !.had_error = TRUE, !.error_count = @ + 1, !.error_msg = message]

\* compiler_lex: the compiler afterwards and the value returned.  The tokens
\* dumped on request are read from the lexer before it is initialized a
\* second time, so the lexer tested is a freshly initialized one either way.
compiler_lex(compiler) ==
    LET lexed(lx) ==
            IF lexer_has_error(lx)
            THEN [compiler |-> compiler_error([compiler EXCEPT !.lexer = lx], lx.error_msg),
                  ok |-> FALSE]
            ELSE [compiler |-> [compiler EXCEPT !.lexer = lx], ok |-> TRUE]
    IN  lexed(lexer_init_ex(compiler.source))

\* compiler_parse from the return of parser_parse on: parser is the parser
\* then and ast the tree returned.
compiler_parse(compiler, parser, ast) ==
    LET parsed(c) ==
            IF ast = NULL \/ parser_had_error(parser)
            THEN [compiler |-> compiler_error(c, IF parser.error_msg # <<>>
                                                 THEN parser.error_msg
                                                 ELSE <<"Parsing failed">>),
                  ok |-> FALSE]
            ELSE [compiler |-> c, ok |-> TRUE]
    IN  parsed([compiler EXCEPT !.parser = parser, !.ast = ast])

\* The loop of compiler_analyze over the children of the program node.
RECURSIVE analyze_loop(_, _, _)
analyze_loop(symtab, children, i) ==
    IF i > Len(children) THEN symtab
    ELSE analyze_loop(
             IF children[i].type \in {"NODE_FUNCTION", "NODE_PROCESS"}
             THEN symtab_insert(symtab, children[i].name,
                                IF children[i].type = "NODE_PROCESS"
                                THEN "SYM_PROCESS" ELSE "SYM_FUNCTION",
                                children[i].data_type).table
             ELSE IF children[i].type = "NODE_VAR_DECL"
             THEN symtab_insert(symtab, children[i].name, "SYM_VARIABLE",
                                children[i].data_type).table
             ELSE symtab,
             children, i + 1)

\* compiler_analyze: the compiler afterwards and the value returned.
compiler_analyze(compiler) ==
    LET built(symtab) ==
            IF symtab_had_error(symtab)
            THEN [compiler |-> compiler_error([compiler EXCEPT !.symtab = symtab],
                                              Str(<<"S","e","m","a","n","t","i","c"," ","a","n","a","l","y","s","i","s"," ","f","a","i","l","e","d">>)),
                  ok |-> FALSE]
            ELSE [compiler |-> [compiler EXCEPT !.symtab = symtab], ok |-> TRUE]
    IN  IF compiler.ast = NULL THEN [compiler |-> compiler, ok |-> FALSE]
        ELSE built(IF compiler.ast.type = "NODE_PROGRAM"
                   THEN analyze_loop(symtab_create, compiler.ast.children, 1)
                   ELSE symtab_create)

\* compiler_generate: the compiler afterwards and the value returned.
compiler_generate(compiler) ==
    LET generated(r) ==
            IF ~r.ok
            THEN [compiler |-> compiler_error([compiler EXCEPT !.codegen = r.gen],
                                  IF r.gen.error_msg # <<>> THEN r.gen.error_msg
                                  ELSE Str(<<"C","o","d","e"," ","g","e","n","e","r","a","t","i","o","n"," ","f","a","i","l","e","d">>)),
                  ok |-> FALSE]
            ELSE [compiler |-> [compiler EXCEPT !.codegen = r.gen], ok |-> TRUE]
    IN  IF compiler.ast = NULL THEN [compiler |-> compiler, ok |-> FALSE]
        ELSE generated(codegen_generate(codegen_create(compiler.symtab), compiler.ast))

\* compiler_destroy: the addresses of the type descriptors given to freemem,
\* in the order of the calls.  codegen_destroy and the release of the lexer,
\* of the parser and of the compiler free no type descriptor.
compiler_destroy(compiler) ==
    IF compiler = NULL THEN <<>>
    ELSE ast_free(compiler.ast) \o symtab_destroy(compiler.symtab)

(***************************************************************************)
(* State                                                                   *)
(***************************************************************************)
VARIABLES
    lexer,          \* the lexer_t in use
    has_peek,       \* lexer.c statics
    peek_buffer,
    has_unget,
    unget_buffer,
    calls,          \* the token calls made since the lexer was initialized
    compiler,       \* the compiler_t in use
    stage,          \* how far the driver has come with it
    program,        \* parser_parse_program: the PROGRAM node so far
    iterations,     \* parser_parse_program: the iterations of its loop so far
    table,          \* the symbol_table_t in use on its own
    result          \* the last call made on it: its arguments and what it returned

lexVars == <<lexer, has_peek, peek_buffer, has_unget, unget_buffer, calls>>
compilerVars == <<compiler, stage, program, iterations>>
symVars == <<table, result>>
vars == <<lexVars, compilerVars, symVars>>

\* No symbol table is in use on its own.
NoTable == table = NULL /\ result = NULL

(***************************************************************************)
(* Bounds                                                                  *)
(***************************************************************************)
MaxLen == 3         \* longest source of the lexer specification
MaxEOF == 2         \* calls made after the first EOF
MaxPeekLen == 2     \* longest source of the peek/unget specification
MaxCalls == 4       \* calls between two initializations there
MaxDepth == 2       \* nesting depth of the statements given to the generator
MaxPieces == 4      \* pieces in a source of the driver
MaxIterations == 3  \* iterations of the loop of parser_parse_program followed
MaxLevel == 2       \* deepest scope entered in the symbol table on its own
MaxSymbols == 2     \* symbols it holds at a time

SeqsUpTo(S, n) == UNION {[1..k -> S] : k \in 0..n}

LexAlphabet ==
    {Ch_a, Ch_one, Ch_dot, Ch_plus, Ch_eq, Ch_dquote, Ch_squote, Ch_backslash,
     Ch_nl, Ch_sp, Ch_slash, Ch_star}
LexSources == SeqsUpTo(LexAlphabet, MaxLen)

PeekAlphabet == {Ch_a, Ch_plus, Ch_sp}
PeekSources == SeqsUpTo(PeekAlphabet, MaxPeekLen)

(***************************************************************************)
(* Lexer operations                                                        *)
(***************************************************************************)
CurStatics == Statics(has_peek, peek_buffer, has_unget, unget_buffer)

SetStatics(st) ==
    /\ has_peek' = st.has_peek
    /\ peek_buffer' = st.peek_buffer
    /\ has_unget' = st.has_unget
    /\ unget_buffer' = st.unget_buffer

\* What a call leaves in the history: the operation, the token it returned,
\* the offset at which the lexer began to read it (after white space and
\* comments; -1 when it read nothing) and the lexer position afterwards.
Call(op, token, start, pos) == [op |-> op, token |-> token, start |-> start, pos |-> pos]

ReadStart(op) ==
    IF (op = "next" /\ has_unget) \/ (op = "peek" /\ (has_peek \/ has_unget))
    THEN -1
    ELSE skip_whitespace_and_comments(lexer).pos

EOFCount == Cardinality({i \in DOMAIN calls : calls[i].token.type = "TOKEN_EOF"})

\* The static storage of lexer.c as the program starts.
StaticsInit ==
    /\ has_peek = FALSE
    /\ peek_buffer = ZeroToken
    /\ has_unget = FALSE
    /\ unget_buffer = ZeroToken

\* The state after a token call has returned r.
Returned(op, r) ==
    /\ UNCHANGED <<compilerVars, symVars>>
    /\ lexer' = r.lexer
    /\ SetStatics(r.statics)
    /\ calls' = Append(calls, Call(op, r.token, ReadStart(op), r.lexer.pos))

\* token = lexer_next_token_ex(lexer)
LexNext(limit) ==
    /\ limit
    /\ Returned("next", lexer_next_token_ex(lexer, CurStatics))

\* token = lexer_peek_token_ex(lexer)
LexPeek ==
    /\ Len(calls) < MaxCalls
    /\ Returned("peek", lexer_peek_token_ex(lexer, CurStatics))

\* lexer_unget_token(token), of a token an earlier call returned
LexUnget ==
    /\ Len(calls) < MaxCalls
    /\ \E i \in DOMAIN calls :
          /\ calls[i].op # "unget"
          /\ SetStatics(lexer_unget_token(CurStatics, calls[i].token))
          /\ calls' = Append(calls, Call("unget", calls[i].token, -1, lexer.pos))
    /\ UNCHANGED <<lexer, compilerVars, symVars>>

\* lexer_init_ex(lexer, source, filename): a lexer is initialized again, on
\* the same or on another source.
LexInitEx ==
    /\ calls # <<>>
    /\ \E source \in PeekSources :
          lexer' = lexer_init_ex(source)
    /\ calls' = <<>>
    /\ UNCHANGED <<has_peek, peek_buffer, has_unget, unget_buffer, compilerVars, symVars>>

(***************************************************************************)
(* Specifications of the lexer                                             *)
(***************************************************************************)
\* No compiler has been created.
NoCompiler == compiler = NULL /\ stage = "none" /\ program = NULL /\ iterations = 0

\* LexSpec: one lexer on any short source, read with next to EOF and beyond.
LexInit ==
    /\ \E source \in LexSources : lexer = lexer_init_ex(source)
    /\ StaticsInit
    /\ calls = <<>>
    /\ NoCompiler
    /\ NoTable

LexSpecNext == LexNext(EOFCount <= MaxEOF)

LexSpec == LexInit /\ [][LexSpecNext]_vars

\* PeekSpec: next, peek, unget and re-initialization in any order.
PeekInit ==
    /\ \E source \in PeekSources : lexer = lexer_init_ex(source)
    /\ StaticsInit
    /\ calls = <<>>
    /\ NoCompiler
    /\ NoTable

PeekSpecNext ==
    \/ LexNext(Len(calls) < MaxCalls)
    \/ LexPeek
    \/ LexUnget
    \/ LexInitEx

PeekSpec == PeekInit /\ [][PeekSpecNext]_vars


(***************************************************************************)
(* Syntax trees given to the driver after parsing                          *)
(***************************************************************************)
Number(n) == [ast_create_node("NODE_NUMBER") EXCEPT !.value = int64_t(n)]
Identifier(name) == [ast_create_node("NODE_IDENTIFIER") EXCEPT !.name = name]
Assign(target, expr) == [ast_create_node("NODE_ASSIGN") EXCEPT !.left = target, !.right = expr]
CallOf(callee, args) == [ast_create_node("NODE_CALL") EXCEPT !.left = callee, !.children = args]
ExprStmt(expr) == [ast_create_node("NODE_EXPR_STMT") EXCEPT !.left = expr]
Return(expr) == [ast_create_node("NODE_RETURN") EXCEPT !.left = expr]
If(cond, then, else) ==
    [ast_create_node("NODE_IF") EXCEPT !.left = cond, !.right = then, !.extra = else]
While(cond, body) == [ast_create_node("NODE_WHILE") EXCEPT !.left = cond, !.right = body]
For(init, cond, step, body) ==
    [ast_create_node("NODE_FOR") EXCEPT !.left = init, !.right = cond, !.extra = step,
                                        !.children = <<body>>]
Block(stmts) == [ast_create_node("NODE_BLOCK") EXCEPT !.children = stmts]
Break == ast_create_node("NODE_BREAK")
Continue == ast_create_node("NODE_CONTINUE")
VarDecl(name, type) == [ast_create_node("NODE_VAR_DECL") EXCEPT !.name = name, !.data_type = type]
Function(kind, name, type, body) ==
    [ast_create_node(kind) EXCEPT !.name = name, !.data_type = type, !.left = body]
Program(decls) == [ast_create_node("NODE_PROGRAM") EXCEPT !.children = decls]

\* The names of the trees: a is a global variable and f a function of the
\* program, u is declared nowhere.
GenConds == {Number(1), Identifier(Str(<<"u">>))}
GenLeaves ==
    {ExprStmt(Assign(Identifier(Str(<<"a">>)), Number(1))),
     ExprStmt(CallOf(Identifier(Str(<<"u">>)), <<>>)),
     Break, Continue, Return(NULL)}

\* The statements nested to depth d.
RECURSIVE GenStmts(_)
GenStmts(d) ==
    LET nest(S) ==
            S \cup {If(c, s, NULL) : c \in GenConds, s \in S}
              \cup {If(c, s, Break) : c \in GenConds, s \in S}
              \cup {While(c, s) : c \in GenConds, s \in S}
              \cup {For(NULL, c, NULL, s) : c \in GenConds, s \in S}
              \cup {For(Number(1), NULL, Number(1), s) : s \in S}
              \cup {Block(<<s, t>>) : s \in S, t \in {Break, Continue}}
    IN  IF d = 0 THEN GenLeaves ELSE nest(GenStmts(d - 1))

GenPrograms ==
    {Program(<<VarDecl(Str(<<"a">>), type_create(1, "TYPE_INT")),
               Function("NODE_FUNCTION", Str(<<"f">>), type_create(2, "TYPE_VOID"), Block(<<s>>))>>) :
        s \in GenStmts(MaxDepth)}
    \cup
    {Program(<<Function("NODE_FUNCTION", Str(<<"f">>), type_create(1, "TYPE_VOID"), Block(<<s>>)),
               Function("NODE_PROCESS", Str(<<"g">>), type_create(2, "TYPE_VOID"), NULL)>>) :
        s \in GenStmts(1)}

(***************************************************************************)
(* Specification of the driver after parsing                               *)
(***************************************************************************)
\* The state after a stage of the driver has returned r.
Staged(r, next) ==
    /\ compiler' = r.compiler
    /\ stage' = IF r.ok THEN next ELSE "failed"
    /\ UNCHANGED <<lexVars, program, iterations, symVars>>

\* compiler_analyze(compiler)
CompilerAnalyze ==
    /\ stage = "parsed"
    /\ Staged(compiler_analyze(compiler), "analyzed")

\* compiler_generate(compiler)
CompilerGenerate ==
    /\ stage = "analyzed"
    /\ Staged(compiler_generate(compiler), "generated")

\* GenSpec: the driver's symbol-table build and code generation, on the
\* syntax tree of any program of nested statements.
GenInit ==
    /\ \E ast \in GenPrograms :
          compiler = [compiler_create(<<>>) EXCEPT !.ast = ast]
    /\ stage = "parsed"
    /\ program = NULL
    /\ iterations = 0
    /\ NoTable
    /\ lexer = lexer_init_ex(<<>>)
    /\ StaticsInit
    /\ calls = <<>>

GenSpecNext == CompilerAnalyze \/ CompilerGenerate

GenSpec == GenInit /\ [][GenSpecNext]_vars


(***************************************************************************)
(* Specification of the driver from the source                             *)
(***************************************************************************)
\* The pieces the sources of the driver are made of.
CompilePieces ==
    {Str(<<"i","n","t">>), Str(<<"x">>), Str(<<";">>), Str(<<"=","1">>), Str(<<"(",")">>),
     Str(<<"{","}">>), Str(<<"{",")">>), Str(<<"@">>), Str(<<"/","*">>)}

\* The pieces from the i-th on, each followed by a space.
RECURSIVE Join(_, _)
Join(pieces, i) ==
    IF i > Len(pieces) THEN <<>> ELSE pieces[i] \o <<Ch_sp>> \o Join(pieces, i + 1)

CompileSources == {Join(pieces, 1) : pieces \in SeqsUpTo(CompilePieces, MaxPieces)}

\* What the memory getmem returns for the parser_t may hold as the type of
\* its current token: something that is not a semicolon, or a semicolon.
GarbageTokens == {ZeroToken, Token("TOKEN_SEMICOLON", <<>>, int64_t(0), 0, 0)}

\* compiler_lex(compiler)
CompilerLex ==
    /\ stage = "created"
    /\ Staged(compiler_lex(compiler), "lexed")

\* The compiler whose parser, and the lexer the parser reads, have become
\* those of parser.
Parsing(parser) == [compiler EXCEPT !.parser = parser, !.lexer = parser.lexer]

\* compiler_parse(compiler) to the loop of parser_parse_program: parser_init
\* and the creation of the PROGRAM node.
ParserInit ==
    /\ stage = "lexed"
    /\ compiler.lexer # NULL
    /\ \E garbage \in GarbageTokens :
          compiler' = Parsing(parser_init(compiler.lexer, garbage))
    /\ program' = ast_create_node("NODE_PROGRAM")
    /\ iterations' = 0
    /\ stage' = "parsing"
    /\ UNCHANGED <<lexVars, symVars>>

\* The state after an iteration of the loop of parser_parse_program has
\* yielded r; an iteration in which parse_block hangs does not end.
Looped(r) ==
    /\ compiler' = Parsing(r.parser)
    /\ program' = r.node
    /\ iterations' = iterations + 1
    /\ stage' = IF r.parser.hang THEN "hung" ELSE "parsing"
    /\ UNCHANGED <<lexVars, symVars>>

\* An iteration of the loop of parser_parse_program.
ParseProgramLoop ==
    /\ stage = "parsing"
    /\ ~check(compiler.parser, "TOKEN_EOF")
    /\ iterations < MaxIterations
    /\ Looped(program_loop(compiler.parser, program))

\* The return of parser_parse_program and the rest of compiler_parse.
ParserReturn ==
    /\ stage = "parsing"
    /\ check(compiler.parser, "TOKEN_EOF")
    /\ Staged(compiler_parse(compiler, compiler.parser, program), "parsed")

\* CompileSpec: compiler_compile on any source made of a few pieces.
CompileInit ==
    /\ \E source \in CompileSources : compiler = compiler_create(source)
    /\ stage = "created"
    /\ program = NULL
    /\ iterations = 0
    /\ NoTable
    /\ lexer = lexer_init_ex(<<>>)
    /\ StaticsInit
    /\ calls = <<>>

CompileSpecNext ==
    \/ CompilerLex
    \/ ParserInit
    \/ ParseProgramLoop
    \/ ParserReturn
    \/ CompilerAnalyze
    \/ CompilerGenerate

CompileSpec == CompileInit /\ [][CompileSpecNext]_vars

(***************************************************************************)
(* Specification of the driver on the worked examples                      *)
(***************************************************************************)
\* The sources of the end-to-end scenarios.
\*   void f(){ return 1+2; }
ReturnSumSource ==
    Str(<<"v","o","i","d"," ","f","(",")","{"," ","r","e","t","u","r","n"," ","1","+","2",";"," ","}">>)
\*   void f(){ if (1) return 2; else return 3; }
IfElseSource ==
    Str(<<"v","o","i","d"," ","f","(",")","{"," ","i","f"," ","(","1",")"," ","r","e","t","u","r","n"," ","2",";"," ","e","l","s","e"," ","r","e","t","u","r","n"," ","3",";"," ","}">>)
\*   void f(){ while (0) { yield; } }
WhileYieldSource ==
    Str(<<"v","o","i","d"," ","f","(",")","{"," ","w","h","i","l","e"," ","(","0",")"," ","{"," ","y","i","e","l","d",";"," ","}"," ","}">>)
\*   void f(){ signal(1); wait(2); }
SignalWaitSource ==
    Str(<<"v","o","i","d"," ","f","(",")","{"," ","s","i","g","n","a","l","(","1",")",";"," ","w","a","i","t","(","2",")",";"," ","}">>)
\*   void a(){} void b(){ a(); }
FunctionsSource ==
    Str(<<"v","o","i","d"," ","a","(",")","{","}"," ","v","o","i","d"," ","b","(",")","{"," ","a","(",")",";"," ","}">>)
\*   void f(){ x = 1; }
UndeclaredSource ==
    Str(<<"v","o","i","d"," ","f","(",")","{"," ","x"," ","="," ","1",";"," ","}">>)

\* The sources of the boundary tests of programs.
\*   (the empty source)
EmptySource ==
    <<>>
\*   void f(){}
EmptyFunctionSource ==
    Str(<<"v","o","i","d"," ","f","(",")","{","}">>)
\*   void f(){ for(;;){} }
EmptyForSource ==
    Str(<<"v","o","i","d"," ","f","(",")","{"," ","f","o","r","(",";",";",")","{","}"," ","}">>)
\*   void f(){ { { } } }
NestedBlocksSource ==
    Str(<<"v","o","i","d"," ","f","(",")","{"," ","{"," ","{"," ","}"," ","}"," ","}">>)
\*   int x; void f(){ int x; }
ShadowSource ==
    Str(<<"i","n","t"," ","x",";"," ","v","o","i","d"," ","f","(",")","{"," ","i","n","t"," ","x",";"," ","}">>)
\*   int x; int x;
RedeclaredSource ==
    Str(<<"i","n","t"," ","x",";"," ","i","n","t"," ","x",";">>)

\* A function that calls itself after another function, a compound
\* assignment, names declared nowhere with code after them, and the other
\* forms of declarations and statements.
\*   void a(){} void b(){ b(); }
RecursionSource ==
    Str(<<"v","o","i","d"," ","a","(",")","{","}"," ","v","o","i","d"," ","b","(",")","{"," ","b","(",")",";"," ","}">>)
\*   void f(){ x += 1; }
CompoundAssignSource ==
    Str(<<"v","o","i","d"," ","f","(",")","{"," ","x"," ","+","="," ","1",";"," ","}">>)
\*   void f(){ g(); }
UndefinedCalleeSource ==
    Str(<<"v","o","i","d"," ","f","(",")","{"," ","g","(",")",";"," ","}">>)
\*   void f(){ x; 1; } void g(){}
UndefinedLaterSource ==
    Str(<<"v","o","i","d"," ","f","(",")","{"," ","x",";"," ","1",";"," ","}"," ","v","o","i","d"," ","g","(",")","{","}">>)
\*   void f(){ do {} while (0); }
DoWhileSource ==
    Str(<<"v","o","i","d"," ","f","(",")","{"," ","d","o"," ","{","}"," ","w","h","i","l","e"," ","(","0",")",";"," ","}">>)
\*   process p(){}
ProcessSource ==
    Str(<<"p","r","o","c","e","s","s"," ","p","(",")","{","}">>)
\*   void f(){ yield; }
YieldSource ==
    Str(<<"v","o","i","d"," ","f","(",")","{"," ","y","i","e","l","d",";"," ","}">>)
\*   void f(){ return 2147483648; }
LargeLiteralSource ==
    Str(<<"v","o","i","d"," ","f","(",")","{"," ","r","e","t","u","r","n"," ","2","1","4","7","4","8","3","6","4","8",";"," ","}">>)
\*   void f(){ return 0x7fffffff; }
HexLiteralSource ==
    Str(<<"v","o","i","d"," ","f","(",")","{"," ","r","e","t","u","r","n"," ","0","x","7","f","f","f","f","f","f","f",";"," ","}">>)

ExampleSources ==
    {ReturnSumSource,
     IfElseSource,
     WhileYieldSource,
     SignalWaitSource,
     FunctionsSource,
     UndeclaredSource,
     EmptySource,
     EmptyFunctionSource,
     EmptyForSource,
     NestedBlocksSource,
     ShadowSource,
     RedeclaredSource,
     RecursionSource,
     CompoundAssignSource,
     UndefinedCalleeSource,
     UndefinedLaterSource,
     DoWhileSource,
     ProcessSource,
     YieldSource,
     LargeLiteralSource,
     HexLiteralSource}

\* ExampleSpec: compiler_compile on the source of an example.
ExampleInit ==
    /\ \E source \in ExampleSources : compiler = compiler_create(source)
    /\ stage = "created"
    /\ program = NULL
    /\ iterations = 0
    /\ NoTable
    /\ lexer = lexer_init_ex(<<>>)
    /\ StaticsInit
    /\ calls = <<>>

\* compiler_destroy(compiler), which the callers of compiler_compile call
\* when it has returned.  compiler keeps what the compiler held, and result
\* records the type descriptors released.
CompilerDestroy ==
    /\ stage \in {"generated", "failed"}
    /\ result' = [op |-> "destroy", freed |-> compiler_destroy(compiler)]
    /\ stage' = "destroyed"
    /\ UNCHANGED <<lexVars, compiler, program, iterations, table>>

ExampleSpecNext == CompileSpecNext \/ CompilerDestroy

ExampleSpec == ExampleInit /\ [][ExampleSpecNext]_vars

(***************************************************************************)
(* Specification of the code generator on the body of a function           *)
(***************************************************************************)
\* The body of the function of the example `void f(){ while (0) { yield; } }`.
WhileYieldBody == <<While(Number(0), Block(<<ast_create_node("NODE_YIELD")>>))>>

\* The bodies: a statement, alone or after an assignment, and the body of
\* the example.
StmtBodies ==
    {<<s>> : s \in GenStmts(MaxDepth)}
    \cup {<<ExprStmt(Assign(Identifier(Str(<<"a">>)), Number(1))), s>> : s \in GenStmts(MaxDepth)}
    \cup {WhileYieldBody}

\* The function codegen_program generates, the first of the program.
TheFunction == compiler.ast.children[2]
TheBody == TheFunction.left.children

\* The state in which the generator has become gen.
Emitted(gen, next) ==
    /\ compiler' = [compiler EXCEPT !.codegen = gen]
    /\ stage' = next
    /\ UNCHANGED <<lexVars, program, table>>

\* codegen_function to the body of the function: the label.
FunctionLabel ==
    /\ stage = "function"
    /\ Emitted(codegen_emit_label(codegen_create(compiler.symtab),
                                  Str(<<"f","u","n","c","_">>) \o TheFunction.name),
               "body")
    /\ UNCHANGED <<iterations, result>>

\* An iteration of the loop of codegen_statement over the statements of the
\* body: result records the statement and the generator before the call.
StatementLoop ==
    /\ stage = "body"
    /\ iterations < Len(TheBody)
    /\ Emitted(codegen_statement(compiler.codegen, TheBody[iterations + 1]), "body")
    /\ iterations' = iterations + 1
    /\ result' = [op |-> "statement", node |-> TheBody[iterations + 1],
                  before |-> compiler.codegen]

\* The end of the loop, the implicit return of codegen_function and the HALT
\* of codegen_program.
FunctionReturn ==
    /\ stage = "body"
    /\ iterations = Len(TheBody)
    /\ Emitted(codegen_emit(codegen_emit(codegen_emit(compiler.codegen, "OP_PUSH", 0),
                                         "OP_RET", 0),
                            "OP_HALT", 0),
               "returned")
    /\ UNCHANGED <<iterations, result>>

\* StmtSpec: code generation for a program of a global variable a and a
\* function f, statement by statement.
StmtInit ==
    /\ \E body \in StmtBodies :
          compiler =
              compiler_analyze(
                  [compiler_create(<<>>) EXCEPT !.ast =
                      Program(<<VarDecl(Str(<<"a">>), type_create(1, "TYPE_INT")),
                                Function("NODE_FUNCTION", Str(<<"f">>),
                                         type_create(2, "TYPE_VOID"), Block(body))>>)]).compiler
    /\ stage = "function"
    /\ program = NULL
    /\ iterations = 0
    /\ NoTable
    /\ lexer = lexer_init_ex(<<>>)
    /\ StaticsInit
    /\ calls = <<>>

StmtSpecNext == FunctionLabel \/ StatementLoop \/ FunctionReturn

StmtSpec == StmtInit /\ [][StmtSpecNext]_vars

(***************************************************************************)
(* Specification of the symbol table                                       *)
(***************************************************************************)
\* The names given to the symbol table: "ar" and "bQ" have the same hash.
SymNames == {Str(<<"a","r">>), Str(<<"b","Q">>)}

\* The kinds and types inserted.  The descriptors are those of addresses 1
\* and 2.
SymDeclarations ==
    {[kind |-> "SYM_VARIABLE", type |-> type_create(1, "TYPE_INT")],
     [kind |-> "SYM_PARAMETER", type |-> type_create(2, "TYPE_CHAR")],
     [kind |-> "SYM_FUNCTION", type |-> type_create(1, "TYPE_INT")]}

\* The scopes from scope outward, by address.
RECURSIVE ScopeChain(_, _)
ScopeChain(t, scope) ==
    IF scope = 0 THEN <<>> ELSE <<scope>> \o ScopeChain(t, t.scopes[scope].parent)

\* The symbols a scope holds, whatever their hash chain.
SymbolsOf(scope) ==
    UNION {{scope.symbols[h][i] : i \in 1..Len(scope.symbols[h])} : h \in DOMAIN scope.symbols}

\* The number of symbols in the table.
RECURSIVE CountSymbols(_, _)
CountSymbols(t, scope) ==
    IF scope = 0 THEN 0
    ELSE t.scopes[scope].symbol_count + CountSymbols(t, t.scopes[scope].parent)

\* The state after a call with the given arguments has left the table t and
\* returned symbol.
Called(op, name, declaration, t, symbol) ==
    /\ table' = t
    /\ result' = [op |-> op, name |-> name, declaration |-> declaration,
                  symbol |-> symbol, before |-> table]
    /\ UNCHANGED <<lexVars, compilerVars>>

\* symtab_enter_scope(table)
SymEnterScope ==
    /\ table.scope_level < MaxLevel
    /\ Called("enter_scope", <<>>, NULL, symtab_enter_scope(table), NULL)

\* symtab_exit_scope(table)
SymExitScope ==
    Called("exit_scope", <<>>, NULL, symtab_exit_scope(table), NULL)

\* symbol = symtab_insert(table, name, kind, type)
SymInsert ==
    \E name \in SymNames, d \in SymDeclarations :
        LET inserted(r) ==
                /\ CountSymbols(r.table, r.table.current_scope) <= MaxSymbols
                /\ Called("insert", name, d, r.table, r.symbol)
        IN  inserted(symtab_insert(table, name, d.kind, d.type))

\* symbol = symtab_lookup(table, name)
SymLookup ==
    \E name \in SymNames :
        Called("lookup", name, NULL, table, symtab_lookup(table, name))

\* SymSpec: a symbol table from symtab_create on, under any calls.
SymInit ==
    /\ table = symtab_create
    /\ result = NULL
    /\ NoCompiler
    /\ lexer = lexer_init_ex(<<>>)
    /\ StaticsInit
    /\ calls = <<>>

SymSpecNext == SymEnterScope \/ SymExitScope \/ SymInsert \/ SymLookup

SymSpec == SymInit /\ [][SymSpecNext]_vars

(***************************************************************************)
(* Properties of the lexer                                                 *)
(***************************************************************************)
IsEOF(call) == call.token.type = "TOKEN_EOF"
NextCalls == {i \in DOMAIN calls : calls[i].op = "next"}
OnlyNext == \A i \in DOMAIN calls : calls[i].op = "next"

\* The coordinates of the character at offset off of a source: lines and
\* columns count from 1, and a newline ends its line.
LineOf(source, off) == 1 + Cardinality({k \in 1..off : source[k] = Ch_nl})
ColumnOf(source, off) ==
    LET nls == {k \in 1..off : source[k] = Ch_nl}
        last == IF nls = {} THEN 0 ELSE CHOOSE k \in nls : \A j \in nls : j <= k
    IN  off - last + 1

PosLE(t1, t2) == t1.line < t2.line \/ (t1.line = t2.line /\ t1.column <= t2.column)

\* C5: peek does not consume. Successive peeks return the same token, and a
\* next that follows a peek returns the token the peek returned.
C5_PeekDoesNotConsume ==
    \A i \in 1..(Len(calls) - 1) :
        calls[i].op = "peek" /\ calls[i + 1].op \in {"peek", "next"}
            => calls[i + 1].token = calls[i].token

\* C6: after lexer_init_ex, reading with next to EOF yields the token stream
\* of the source, whatever calls were made before the initialization.
C6_InitRestartsStream ==
    (OnlyNext /\ calls # <<>> /\ IsEOF(calls[Len(calls)]) /\ EOFCount = 1)
        => [i \in DOMAIN calls |-> calls[i].token] = TokenStream(lexer.source)

\* C7: next reaches EOF after finitely many calls, since every token other
\* than EOF consumes at least one character of the source, and once EOF has
\* been returned every later call returns EOF.
C7_EOFReachedAndRepeated ==
    /\ \A i \in DOMAIN calls :
          ~IsEOF(calls[i]) => calls[i].pos > (IF i = 1 THEN 0 ELSE calls[i - 1].pos)
    /\ Len(calls) > lexer.length => \E i \in DOMAIN calls : IsEOF(calls[i])
    /\ \A i, j \in DOMAIN calls : i < j /\ IsEOF(calls[i]) => IsEOF(calls[j])

\* C7 witness: a source starting with '.' and a digit has been read as a
\* token, and EOF has been returned more than once.
C7_Witness ==
    /\ Len(calls) >= 3
    /\ calls[1].token.type = "TOKEN_FLOAT" /\ calls[1].token.value[1] = Ch_dot
    /\ EOFCount >= 2

\* C8: every token next returns, other than EOF, reports the line and column
\* of its first character.
C8_TokenPositionIsFirstChar ==
    \A i \in NextCalls :
        ~IsEOF(calls[i]) /\ calls[i].start >= 0
            => /\ calls[i].token.line = LineOf(lexer.source, calls[i].start)
               /\ calls[i].token.column = ColumnOf(lexer.source, calls[i].start)

\* C9: the tokens other than EOF returned by successive next calls have
\* lexicographically non-decreasing (line, column).
C9_PositionsMonotone ==
    \A i, j \in DOMAIN calls :
        i < j /\ ~IsEOF(calls[i]) /\ ~IsEOF(calls[j])
            => PosLE(calls[i].token, calls[j].token)

\* C9 witness: an operator token and then a token on a later line.
C9_Witness ==
    /\ Len(calls) >= 2
    /\ calls[1].token.type = "TOKEN_PLUS"
    /\ ~IsEOF(calls[2]) /\ calls[2].token.line > calls[1].token.line

\* C10: a string literal whose opening quote is followed by no closing quote
\* makes next return an ERROR token and set the lexer's error state.
C10_UnterminatedStringIsError ==
    \A i \in NextCalls :
        (/\ calls[i].start >= 0 /\ calls[i].start < lexer.length
         /\ lexer.source[calls[i].start + 1] = Ch_dquote
         /\ \A k \in (calls[i].start + 2)..lexer.length : lexer.source[k] # Ch_dquote)
            => calls[i].token.type = "TOKEN_ERROR" /\ lexer.has_error

(***************************************************************************)
(* Properties of the code generator                                        *)
(***************************************************************************)
\* The code buffer of the compiler's generator, once there is one.
Generated == compiler # NULL /\ compiler.codegen # NULL
Code == compiler.codegen.code
IsJump(inst) == inst.opcode \in {"OP_JMP", "OP_JZ", "OP_JNZ"}

\* C1: after code generation, with or without errors, the operand of every
\* JMP, JZ and JNZ instruction is an instruction index of the code buffer,
\* at least 0 and less than count.
C1_JumpTargetsInRange ==
    Generated =>
        \A i \in 1..Code.count :
            IsJump(Code.instructions[i])
                => Code.instructions[i].operand \in 0..(Code.count - 1)

\* C1 witness: code was generated with an undeclared name reported, it holds
\* a jump placed by a break inside a loop (its target is the loop's JZ) and a
\* JZ patched to the end of the function body.
C1_Witness ==
    /\ Generated
    /\ compiler.codegen.had_error
    /\ \E i, j \in 1..Code.count :
          /\ Code.instructions[i].opcode = "OP_JMP"
          /\ Code.instructions[j].opcode = "OP_JZ"
          /\ Code.instructions[i].operand = j - 1
          /\ j < i
          /\ Code.instructions[j].operand = Code.count - 3

(***************************************************************************)
(* Properties of the parser and of the driver from the source              *)
(***************************************************************************)
\* The token types parse_type_specifier takes for a type.
TypeTokens ==
    {"TOKEN_VOID", "TOKEN_CHAR_TYPE", "TOKEN_SHORT", "TOKEN_INT", "TOKEN_LONG",
     "TOKEN_FLOAT_TYPE", "TOKEN_DOUBLE", "TOKEN_PROCESS", "TOKEN_SEMAPHORE"}

\* The first iteration of the loop of parser_parse_program has ended.
FirstDeclarationDone == stage = "parsing" /\ iterations = 1

\* The tokens of the source begin with the given types.
BeginsWith(types) ==
    /\ Len(compiler.parser.tokens) >= Len(types)
    /\ \A i \in 1..Len(types) : compiler.parser.tokens[i].token.type \in types[i]

\* The first iteration has parsed a variable declaration named by the second
\* token, without error, and the parser is at the n-th token.
VariableDeclared(n) ==
    /\ ~compiler.parser.had_error
    /\ Len(program.children) = 1
    /\ program.children[1].type = "NODE_VAR_DECL"
    /\ program.children[1].name = compiler.parser.tokens[2].token.value
    /\ compiler.parser.fetched = n
    /\ compiler.parser.current = compiler.parser.tokens[n].token

\* C2: a top-level declaration `type IDENT ;` or `type IDENT = expr ;` is
\* parsed without error into a VAR_DECL node named IDENT, with the
\* initializer in left when there is one, and the parser goes on at the token
\* after the semicolon.  Stated for the first declaration of the source, with
\* a number as the initializer.
C2_VariableDeclarationParsed ==
    FirstDeclarationDone =>
        /\ BeginsWith(<<TypeTokens, {"TOKEN_IDENTIFIER"}, {"TOKEN_SEMICOLON"}>>)
              => VariableDeclared(4) /\ program.children[1].left = NULL
        /\ BeginsWith(<<TypeTokens, {"TOKEN_IDENTIFIER"}, {"TOKEN_ASSIGN"}, {"TOKEN_NUMBER"},
                        {"TOKEN_SEMICOLON"}>>)
              => /\ VariableDeclared(6)
                 /\ program.children[1].left.type = "NODE_NUMBER"
                 /\ program.children[1].left.value = compiler.parser.tokens[4].token.int_val

\* A declaration has been parsed with an error, and parser_synchronize has
\* returned before the end of the tokens.
Synchronized ==
    /\ stage = "parsing"
    /\ program.children # <<>>
    /\ compiler.parser.had_error
    /\ ~compiler.parser.panic_mode
    /\ ~check(compiler.parser, "TOKEN_EOF")

\* C3: after a syntax error the parser synchronizes and then goes on to parse
\* the following top-level declarations: the iteration of the declaration
\* loop that follows a synchronization parses a declaration and adds it to
\* the Program node.
C3_DeclarationParsedAfterSynchronize ==
    [][(Synchronized /\ stage' = "parsing")
          => Len(program'.children) = Len(program.children) + 1]_vars

\* The lexer after the source it was initialized on has been read to EOF.
RECURSIVE Tokenized(_)
Tokenized(lx) ==
    LET rest(r) == IF r.token.type = "TOKEN_EOF" THEN r.lexer ELSE Tokenized(r.lexer)
    IN  rest(lexer_next_token_ex(lx, Statics(FALSE, ZeroToken, FALSE, ZeroToken)))

\* C4: on a source whose tokenizing sets the error state of the lexer,
\* compiler_compile does not return success, and neither the symbol-table
\* build nor the code generation is run.
C4_LexicalErrorStopsPipeline ==
    lexer_has_error(Tokenized(lexer_init_ex(compiler.source)))
        => compiler.symtab = NULL /\ compiler.codegen = NULL /\ stage # "generated"

(***************************************************************************)
(* Properties of the symbol table                                          *)
(***************************************************************************)
\* The scope of the table t holds a symbol with the name.
HasName(t, scope, name) == \E s \in SymbolsOf(t.scopes[scope]) : s.name = name

\* The scopes from the current one outward.
CurrentChain(t) == ScopeChain(t, t.current_scope)

\* The last call was an insert that returned a symbol.
Inserted == result # NULL /\ result.op = "insert" /\ result.symbol # NULL

\* C11: after any calls of enter_scope, exit_scope and insert, a symbol that
\* lookup returns has the name asked for and lives in a scope of the chain
\* from the current scope outward, no scope before it on the chain holding
\* the name; lookup returns nothing only when no scope of the chain holds the
\* name.
C11_LookupFindsInnermost ==
    (result # NULL /\ result.op = "lookup") =>
        IF result.symbol = NULL
        THEN \A k \in 1..Len(CurrentChain(table)) :
                ~HasName(table, CurrentChain(table)[k], result.name)
        ELSE /\ result.symbol.name = result.name
             /\ \E k \in 1..Len(CurrentChain(table)) :
                   /\ result.symbol \in SymbolsOf(table.scopes[CurrentChain(table)[k]])
                   /\ \A j \in 1..(k - 1) :
                         ~HasName(table, CurrentChain(table)[j], result.name)

\* A lookup has returned a symbol of an outer scope, past a symbol of the
\* current scope whose name has the same hash.
C11_Witness ==
    /\ result # NULL /\ result.op = "lookup" /\ result.symbol # NULL
    /\ result.symbol.scope_level < table.scope_level
    /\ table.scopes[table.current_scope].symbols[hash(result.name)] # <<>>

\* C12: in every state the parent pointers lead from current_scope to
\* global_scope in exactly scope_level steps, the global scope has no parent,
\* and global_scope is the scope symtab_create made.
C12_ChainReachesGlobal ==
    table # NULL =>
        /\ table.global_scope = symtab_create.global_scope
        /\ table.global_scope \in DOMAIN table.scopes
        /\ table.scopes[table.global_scope].parent = 0
        /\ Len(CurrentChain(table)) = table.scope_level + 1
        /\ CurrentChain(table)[table.scope_level + 1] = table.global_scope

\* exit_scope has been called at the global scope, after a scope that held a
\* symbol had been left.
C12_Witness ==
    /\ result # NULL /\ result.op = "exit_scope"
    /\ result.before.current_scope = result.before.global_scope
    /\ table.scopes[table.global_scope].symbol_count > 0

\* C13: insert returns no symbol, and sets the error state, exactly when the
\* current scope holds a symbol with the name; the scopes are then as they
\* were.  When it returns a symbol, as it does when only outer scopes hold
\* the name, lookup from the current scope returns that symbol.
C13_InsertFailsOnRedeclaration ==
    (result # NULL /\ result.op = "insert") =>
        /\ result.symbol = NULL
              <=> HasName(result.before, result.before.current_scope, result.name)
        /\ result.symbol = NULL
              => /\ table.had_error
                 /\ table.scopes = result.before.scopes
                 /\ table.current_scope = result.before.current_scope
        /\ result.symbol # NULL
              => /\ symtab_lookup(table, result.name) = result.symbol
                 /\ result.symbol \in SymbolsOf(table.scopes[table.current_scope])

\* An insert has failed in an inner scope for a name that an outer scope
\* holds too: the insert that shadowed the outer symbol had succeeded.
C13_Witness ==
    /\ result # NULL /\ result.op = "insert" /\ result.symbol = NULL
    /\ table.scope_level > 0
    /\ HasName(table, table.global_scope, result.name)

\* C14: a symbol that insert returns has the offset next_offset had in the
\* current scope before the call and the level of that scope; next_offset
\* has grown by type_size(type) for a variable or a parameter, and not at
\* all for another kind.
C14_InsertAssignsOffset ==
    Inserted =>
        /\ result.symbol.offset = result.before.scopes[result.before.current_scope].next_offset
        /\ result.symbol.scope_level = result.before.scopes[result.before.current_scope].level
        /\ table.scopes[table.current_scope].next_offset =
              result.before.scopes[result.before.current_scope].next_offset
                  + IF result.declaration.kind \in {"SYM_VARIABLE", "SYM_PARAMETER"}
                    THEN type_size(result.declaration.type) ELSE 0

\* A function has been inserted after a variable of the same scope.
C14_Witness ==
    /\ Inserted
    /\ result.declaration.kind = "SYM_FUNCTION"
    /\ result.symbol.offset > 0

(***************************************************************************)
(* Properties of the symbol-table build and of the code generated          *)
(***************************************************************************)
\* The symbols of the global scope of the table the driver has built.
GlobalSymbols == SymbolsOf(compiler.symtab.scopes[compiler.symtab.global_scope])

Analyzed == stage \in {"analyzed", "generated"} /\ compiler.symtab # NULL

\* C15: after the driver's symbol-table build, two functions of the program
\* have different offsets; for the source of two functions a and b, a has
\* offset 0 and b has offset 1.
C15_FunctionsHaveDistinctOffsets ==
    Analyzed =>
        /\ \A f, g \in GlobalSymbols :
              f.kind = "SYM_FUNCTION" /\ g.kind = "SYM_FUNCTION" /\ f.name # g.name
                  => f.offset # g.offset
        /\ compiler.source = FunctionsSource =>
              \A f \in GlobalSymbols :
                  f.offset = IF f.name = Str(<<"a">>) THEN 0 ELSE 1

\* The names of the functions called in the tree node.
RECURSIVE Callees(_)
Callees(node) ==
    IF node = NULL THEN {}
    ELSE (IF node.type = "NODE_CALL" THEN {node.left.name} ELSE {})
         \cup Callees(node.left) \cup Callees(node.right) \cup Callees(node.extra)
         \cup UNION {Callees(node.children[i]) : i \in DOMAIN node.children}

\* C16: the operand of every CALL instruction generated is the index of an
\* instruction of the code buffer, the NOP that carries the label func_g of
\* the function g called.
C16_CallOperandIsFunctionEntry ==
    stage = "generated" =>
        \A i \in DOMAIN Code.instructions :
            Code.instructions[i].opcode = "OP_CALL" =>
                \E g \in Callees(compiler.ast) :
                    LET entry == Code.instructions[i].operand + 1
                    IN  /\ entry \in DOMAIN Code.instructions
                        /\ Code.instructions[entry].opcode = "OP_NOP"
                        /\ Code.instructions[entry].label = Str(<<"f","u","n","c","_">>) \o g

\* The instructions generated, each as its opcode and its operand.
Listing ==
    [i \in DOMAIN Code.instructions |->
        <<Code.instructions[i].opcode, Code.instructions[i].operand>>]

Compiled(source) == compiler.source = source /\ stage = "generated"

\* C17 as the example states it: the source with an if and an else compiles
\* to eleven instructions, of which the JZ has operand 5 and the JMP operand 8.
C17_IfElseListingStated ==
    /\ compiler.source = IfElseSource => stage \notin {"failed", "hung"}
    /\ Compiled(IfElseSource) =>
          Listing = << <<"OP_NOP", 0>>, <<"OP_PUSH", 1>>, <<"OP_JZ", 5>>, <<"OP_PUSH", 2>>,
                       <<"OP_RET", 0>>, <<"OP_JMP", 8>>, <<"OP_PUSH", 3>>, <<"OP_RET", 0>>,
                       <<"OP_PUSH", 0>>, <<"OP_RET", 0>>, <<"OP_HALT", 0>> >>

\* C17, amended: the source with an if and an else compiles to the eleven
\* instructions of the example, but the JZ has operand 6, the index of the
\* first instruction of the else branch; the JMP has operand 8.
C17_IfElseListing ==
    /\ compiler.source = IfElseSource => stage \notin {"failed", "hung"}
    /\ Compiled(IfElseSource) =>
          Listing = << <<"OP_NOP", 0>>, <<"OP_PUSH", 1>>, <<"OP_JZ", 6>>, <<"OP_PUSH", 2>>,
                       <<"OP_RET", 0>>, <<"OP_JMP", 8>>, <<"OP_PUSH", 3>>, <<"OP_RET", 0>>,
                       <<"OP_PUSH", 0>>, <<"OP_RET", 0>>, <<"OP_HALT", 0>> >>

C17_Witness == Compiled(IfElseSource) /\ Code.count = 11

\* C18: a function whose body is made of operations on processes and
\* semaphores compiles, to the code of each argument followed by the opcode
\* of the operation, and to YIELD alone for yield.
C18_ProcessStatementsCompile ==
    /\ compiler.source \in {SignalWaitSource, YieldSource} =>
          stage \notin {"failed", "hung"}
    /\ Compiled(SignalWaitSource) =>
          Listing = << <<"OP_NOP", 0>>, <<"OP_PUSH", 1>>, <<"OP_SIGNAL", 0>>, <<"OP_PUSH", 2>>,
                       <<"OP_WAIT", 0>>, <<"OP_PUSH", 0>>, <<"OP_RET", 0>>, <<"OP_HALT", 0>> >>
    /\ Compiled(YieldSource) =>
          Listing = << <<"OP_NOP", 0>>, <<"OP_YIELD", 0>>, <<"OP_PUSH", 0>>, <<"OP_RET", 0>>,
                       <<"OP_HALT", 0>> >>

\* The kinds of nodes whose parts the generator visits.
GeneratedTypes ==
    {"NODE_PROGRAM", "NODE_FUNCTION", "NODE_PROCESS", "NODE_BLOCK", "NODE_EXPR_STMT",
     "NODE_RETURN", "NODE_IF", "NODE_WHILE", "NODE_FOR", "NODE_CREATE", "NODE_RESUME",
     "NODE_SUSPEND", "NODE_KILL", "NODE_SLEEP", "NODE_WAIT", "NODE_SIGNAL",
     "NODE_BINARY_OP", "NODE_UNARY_OP", "NODE_ASSIGN", "NODE_CALL"}

\* The names the generator looks up in the tree node: those of identifiers,
\* of the targets of assignments and of the functions called.
RECURSIVE Lookups(_)
Lookups(node) ==
    IF node = NULL THEN {}
    ELSE IF node.type = "NODE_IDENTIFIER" THEN {node.name}
    ELSE IF node.type \notin GeneratedTypes THEN {}
    ELSE Lookups(node.left) \cup Lookups(node.right) \cup Lookups(node.extra)
         \cup UNION {Lookups(node.children[i]) : i \in DOMAIN node.children}

\* Some name the generator looks up is in no scope of the table.
UndefinedName ==
    \E name \in Lookups(compiler.ast) : symtab_lookup(compiler.symtab, name) = NULL

FunctionsOf(ast) ==
    {i \in DOMAIN ast.children : ast.children[i].type \in {"NODE_FUNCTION", "NODE_PROCESS"}}

Labelled == {i \in DOMAIN Code.instructions : Code.instructions[i].label # <<>>}

\* C19: after code generation, if a name looked up was undefined, had_error
\* is set with one of the two messages and codegen_generate has failed;
\* with or without an error every function has its label and the code ends
\* with HALT; codegen_generate has succeeded exactly when had_error is not
\* set.
C19_UndefinedNameIsError ==
    Generated =>
        /\ UndefinedName =>
              /\ compiler.codegen.had_error
              /\ compiler.codegen.error_msg \in
                     {Str(<<"U","n","d","e","f","i","n","e","d"," ","v","a","r","i","a","b","l","e">>),
                      Str(<<"U","n","d","e","f","i","n","e","d"," ","f","u","n","c","t","i","o","n">>)}
              /\ stage = "failed"
        /\ Cardinality(Labelled) = Cardinality(FunctionsOf(compiler.ast))
        /\ Code.instructions[Code.count].opcode = "OP_HALT"
        /\ stage = "generated" <=> ~compiler.codegen.had_error

\* An error in the first function, with a jump of a later statement and the
\* label of the second function generated after it.
C19_Witness ==
    /\ Generated
    /\ compiler.codegen.had_error
    /\ \E i \in Labelled : Code.instructions[i].label = Str(<<"f","u","n","c","_","g">>)
    /\ \E i \in DOMAIN Code.instructions : Code.instructions[i].opcode = "OP_JMP"

\* The kinds of the nodes of the tree node.
RECURSIVE NodeTypes(_)
NodeTypes(node) ==
    IF node = NULL THEN {}
    ELSE {node.type} \cup NodeTypes(node.left) \cup NodeTypes(node.right)
         \cup NodeTypes(node.extra)
         \cup UNION {NodeTypes(node.children[i]) : i \in DOMAIN node.children}

\* C20: after code generation for a tree with a COMPOUND_ASSIGN node, the
\* generator has recorded an error and codegen_generate has failed.
C20_CompoundAssignIsError ==
    Generated /\ "NODE_COMPOUND_ASSIGN" \in NodeTypes(compiler.ast) =>
        compiler.codegen.had_error /\ stage = "failed"

(***************************************************************************)
(* Properties of the release of the compiler                               *)
(***************************************************************************)
Destroyed == stage = "destroyed" /\ compiler.symtab # NULL

\* C21: after a compile that built the symbol table and compiler_destroy, no
\* type descriptor has been given to freemem twice.
C21_TypesFreedOnce ==
    Destroyed =>
        \A i, j \in DOMAIN result.freed : result.freed[i] = result.freed[j] => i = j

(***************************************************************************)
(* Properties of the code of loops                                         *)
(***************************************************************************)
Halts == {i \in DOMAIN Code.instructions : Code.instructions[i].opcode = "OP_HALT"}

\* C22: after code generation for a program, with or without errors, the
\* last instruction of the code buffer is HALT and no other instruction is.
C22_SingleHaltAtEnd ==
    Generated /\ compiler.ast.type = "NODE_PROGRAM" => Halts = {Code.count}

C22_Witness ==
    /\ Generated
    /\ compiler.codegen.had_error
    /\ Cardinality(FunctionsOf(compiler.ast)) = 2
    /\ Halts = {Code.count}

\* The statement the generator has just generated, the generator before and
\* the instructions generated for it.
Stated == stage = "body" /\ result # NULL
IsLoop(node) == node.type \in {"NODE_WHILE", "NODE_FOR"}
BodyOf(node) == IF node.type = "NODE_WHILE" THEN node.right ELSE node.children[1]
NewCode == (result.before.code.count + 1)..Code.count

\* How many nodes of the given kind the statement node holds outside the
\* loops nested in it: the BREAK or CONTINUE statements whose innermost
\* enclosing loop is the one node is the body of.
RECURSIVE Leaving(_, _)

RECURSIVE LeavingFrom(_, _, _)
LeavingFrom(children, i, kind) ==
    IF i > Len(children) THEN 0
    ELSE Leaving(children[i], kind) + LeavingFrom(children, i + 1, kind)

Leaving(node, kind) ==
    IF node = NULL THEN 0
    ELSE IF node.type = kind THEN 1
    ELSE IF node.type = "NODE_IF" THEN Leaving(node.right, kind) + Leaving(node.extra, kind)
    ELSE IF node.type = "NODE_BLOCK" THEN LeavingFrom(node.children, 1, kind)
    ELSE 0

JumpsTo(target) ==
    {i \in NewCode : /\ Code.instructions[i].opcode = "OP_JMP"
                     /\ Code.instructions[i].operand = target}

\* C23: the code of a loop has one JMP to the exit of the loop, the index of
\* the first instruction after it, for every BREAK in its body outside the
\* loops nested there; a BREAK outside every loop generates nothing.
C23_BreakJumpsToExit ==
    Stated =>
        /\ IsLoop(result.node) =>
              Cardinality(JumpsTo(Code.count)) = Leaving(BodyOf(result.node), "NODE_BREAK")
        /\ result.node.type = "NODE_BREAK" => Code = result.before.code

\* The number of instructions of the step of the FOR loop node: the code of
\* the expression and a POP.
StepSize(node) ==
    IF node.extra = NULL THEN 0
    ELSE codegen_expression(result.before, node.extra).code.count
             - result.before.code.count + 1

\* The continue point of the loop generated last: the index of the first
\* instruction of the condition of a WHILE, which the loop begins with, and
\* of the step of a FOR, which only the JMP back to the start follows.
ContinuePoint(node) ==
    IF node.type = "NODE_WHILE" THEN result.before.code.count
    ELSE Code.count - 1 - StepSize(node)

\* C24: the code of a loop has a JMP to the continue point of the loop for
\* every CONTINUE in its body outside the loops nested there, besides the
\* JMP back to the start, which in a WHILE has the same target; a CONTINUE
\* outside every loop generates nothing.
C24_ContinueJumpsToContinuePoint ==
    Stated =>
        /\ IsLoop(result.node) =>
              Cardinality(JumpsTo(ContinuePoint(result.node)))
                  >= Leaving(BodyOf(result.node), "NODE_CONTINUE")
                         + (IF result.node.type = "NODE_WHILE" THEN 1 ELSE 0)
        /\ result.node.type = "NODE_CONTINUE" => Code = result.before.code

\* C25: in the code of a WHILE loop, whatever loops its body holds, the
\* instruction after the code of the condition is a JZ to the index after
\* the loop, and the last instruction is a JMP to the first instruction of
\* the condition; the body of the example gives NOP, PUSH 0, JZ 5, YIELD,
\* JMP 1.
C25_WhileJumps ==
    LET \* jz is the index of the JZ instruction
        loop(jz) ==
            /\ Code.instructions[jz + 1].opcode = "OP_JZ"
            /\ Code.instructions[jz + 1].operand = Code.count
            /\ Code.instructions[Code.count].opcode = "OP_JMP"
            /\ Code.instructions[Code.count].operand = result.before.code.count
    IN  Stated =>
            /\ result.node.type = "NODE_WHILE" =>
                  loop(codegen_expression(result.before, result.node.left).code.count)
            /\ TheBody = WhileYieldBody =>
                  Listing = << <<"OP_NOP", 0>>, <<"OP_PUSH", 0>>, <<"OP_JZ", 5>>,
                               <<"OP_YIELD", 0>>, <<"OP_JMP", 1>> >>

\* A WHILE loop, after an assignment, whose body is a loop.
C25_Witness ==
    /\ Stated
    /\ result.node.type = "NODE_WHILE"
    /\ IsLoop(result.node.right)
    /\ result.before.code.count > 1
    /\ ~compiler.codegen.had_error

\* The generator of the FOR loop node after the code of its initialization,
\* where the loop starts.
AfterInit(node) ==
    IF node.left # NULL
    THEN codegen_emit(codegen_expression(result.before, node.left), "OP_POP", 0)
    ELSE result.before

\* C26: in the code of a FOR loop with a condition, whatever loops and BREAK
\* statements its body holds, the instruction after the code of the
\* condition is a JZ to the index after the loop, the last instruction is a
\* JMP to the start of the loop, and the instructions before and of the
\* body are those generated before the JZ was patched.  The code of a FOR
\* loop without a condition is the code of the initialization and of the
\* body, as generated, and then no JZ.
C26_ForJumps ==
    LET \* body is the generator after the body, the JZ at index jz unpatched
        kept(body, jz) ==
            \A i \in 1..body.code.count :
                i # jz + 1 => Code.instructions[i] = body.code.instructions[i]
        with_condition(cond, start) ==
            /\ Code.instructions[cond.code.count + 1].opcode = "OP_JZ"
            /\ Code.instructions[cond.code.count + 1].operand = Code.count
            /\ Code.instructions[Code.count].opcode = "OP_JMP"
            /\ Code.instructions[Code.count].operand = start
            /\ kept(codegen_statement(
                        [codegen_emit(cond, "OP_JZ", 0) EXCEPT
                            !.loop_break_label = cond.code.count],
                        BodyOf(result.node)),
                    cond.code.count)
        without_condition(body) ==
            /\ kept(body, -1)
            /\ \A i \in (body.code.count + 1)..Code.count :
                  Code.instructions[i].opcode # "OP_JZ"
        loop(init) ==
            IF result.node.right # NULL
            THEN with_condition(codegen_expression(init, result.node.right), init.code.count)
            ELSE without_condition(codegen_statement(init, BodyOf(result.node)))
    IN  Stated /\ result.node.type = "NODE_FOR" => loop(AfterInit(result.node))

\* A FOR loop with a condition whose body is a loop with a BREAK.
C26_Witness ==
    /\ Stated
    /\ result.node.type = "NODE_FOR"
    /\ result.node.right # NULL
    /\ IsLoop(BodyOf(result.node))
    /\ BodyOf(BodyOf(result.node)).type = "NODE_BREAK"
    /\ ~compiler.codegen.had_error

(***************************************************************************)
(* Properties of the operands of literals                                  *)
(***************************************************************************)
\* The NUMBER nodes of the tree node.
RECURSIVE Numbers(_)
Numbers(node) ==
    IF node = NULL THEN {}
    ELSE (IF node.type = "NODE_NUMBER" THEN {node} ELSE {})
         \cup Numbers(node.left) \cup Numbers(node.right) \cup Numbers(node.extra)
         \cup UNION {Numbers(node.children[i]) : i \in DOMAIN node.children}

\* C27: the code of a NUMBER node the parser has built from a literal is one
\* PUSH whose operand is the value of the node.
C27_PushOperandIsLiteral ==
    LET pushed(n, code) ==
            /\ code.count = 1
            /\ code.instructions[1].opcode = "OP_PUSH"
            /\ int64_t(code.instructions[1].operand) = n.value
    IN  stage = "generated" =>
            \A n \in Numbers(compiler.ast) :
                pushed(n, codegen_expression(codegen_create(compiler.symtab), n).code)

(***************************************************************************)
(* Properties of the termination of the parser                             *)
(***************************************************************************)
\* C28: every iteration of the loop of parser_parse_program, and of the loop
\* of parse_block within it, takes a token: the iteration ends, and the
\* parser has then fetched more tokens than before it.
C28_IterationsTakeToken ==
    [][stage = "parsing" /\ iterations' > iterations =>
          /\ stage' = "parsing"
          /\ compiler'.parser.fetched > compiler.parser.fetched]_vars

(***************************************************************************)
(* Properties of the stack effect of expressions                           *)
(***************************************************************************)
\* The number of values the instruction of the opcode adds to the stack.
StackEffect(opcode) ==
    IF opcode \in {"OP_PUSH", "OP_LOADG", "OP_LOADL", "OP_DUP", "OP_GETPID"} THEN 1
    ELSE IF opcode \in {"OP_NEG", "OP_LNOT", "OP_NOT", "OP_NOP"} THEN 0
    ELSE -1

\* The net stack effect of the instructions from index i on.
RECURSIVE NetEffect(_, _)
NetEffect(instructions, i) ==
    IF i > Len(instructions) THEN 0
    ELSE StackEffect(instructions[i].opcode) + NetEffect(instructions, i + 1)

\* The expressions of the EXPR_STMT nodes of the tree node.
RECURSIVE Expressions(_)
Expressions(node) ==
    IF node = NULL THEN {}
    ELSE (IF node.type = "NODE_EXPR_STMT" /\ node.left # NULL THEN {node.left} ELSE {})
         \cup Expressions(node.left) \cup Expressions(node.right) \cup Expressions(node.extra)
         \cup UNION {Expressions(node.children[i]) : i \in DOMAIN node.children}

\* C29: the code of an expression without a call that the parser has built,
\* when codegen_expression records no error for it, has net stack effect +1.
C29_ExpressionPushesOne ==
    LET one(gen) == ~gen.had_error => NetEffect(gen.code.instructions, 1) = 1
    IN  compiler # NULL /\ compiler.symtab # NULL =>
            \A e \in Expressions(compiler.ast) :
                "NODE_CALL" \notin NodeTypes(e) =>
                    one(codegen_expression(codegen_create(compiler.symtab), e))

(***************************************************************************)
(* Properties of the labels of the enclosing loop                          *)
(***************************************************************************)
\* Labels the generator may hold when codegen_statement is called.
FoundLabels == {-1, 0, 2}

\* C30: codegen_statement returns with loop_break_label and
\* loop_continue_label as it found them, whatever they were and whatever
\* loops the statement holds; both are -1 at the start of the body of the
\* function, after each of its statements and after code generation.
C30_LabelsRestored ==
    LET same(after, before) ==
            /\ after.loop_break_label = before.loop_break_label
            /\ after.loop_continue_label = before.loop_continue_label
        found(gen) == same(codegen_statement(gen, result.node), gen)
    IN  /\ stage \in {"body", "returned"} =>
              /\ compiler.codegen.loop_break_label = -1
              /\ compiler.codegen.loop_continue_label = -1
        /\ Stated =>
              /\ same(compiler.codegen, result.before)
              /\ \A b, c \in FoundLabels :
                    found([result.before EXCEPT !.loop_break_label = b,
                                                !.loop_continue_label = c])

\* A WHILE loop whose body is a FOR loop with a condition has been generated.
C30_Witness ==
    /\ Stated
    /\ result.node.type = "NODE_WHILE"
    /\ BodyOf(result.node).type = "NODE_FOR"
    /\ BodyOf(result.node).right # NULL
    /\ Code.count > result.before.code.count

=============================================================================
